---------------------------- MODULE Spec2Model ----------------------------
(***************************************************************************)
(* A model of the fancards bot: the card economy (burn, fusion, craft,     *)
(* shop, trade, lock) on top of the two-phase confirmation workflow of     *)
(* source/utils/view.py and the resettable cooldown of                     *)
(* source/utils/cooldown.py.  Every interaction is a task; a task suspends *)
(* while its confirmation view is open and at the storage calls between    *)
(* its checks and its writes, so tasks interleave there.                   *)
(***************************************************************************)
EXTENDS Integers, FiniteSets, Sequences, TLC

(***************************************************************************)
(* Universe of the model.                                                  *)
(***************************************************************************)
Users == {"u1", "u2"}
Tasks == {"t1", "t2"}
CardIds == {"a", "b", "c", "d"}

\* source/enums.py: Item, Currency, SpecialRarity, Condition, Rarity
Items == {"glistening_gem", "fusion_crystal", "backpack_upgrade"}
Conditions == {"damaged", "poor", "good", "near_mint", "mint", "pristine"}
Rarities == {"common", "uncommon", "rare", "epic", "mythic", "legendary",
             "exotic", "nightmare", "exclusive_icicle"}

\* Condition.level
level(c) ==
    CASE c = "damaged" -> 1
      [] c = "poor" -> 2
      [] c = "good" -> 3
      [] c = "near_mint" -> 4
      [] c = "mint" -> 5
      [] c = "pristine" -> 6

\* Condition.to_star
condition_to_star(c) ==
    CASE c = "damaged" -> 3
      [] c = "poor" -> 12
      [] c = "good" -> 33
      [] c = "near_mint" -> 72
      [] c = "mint" -> 138
      [] c = "pristine" -> 228

\* Rarity.to_silver: the (low, high) range random.randint draws from
to_silver(r) ==
    CASE r = "common" -> <<10, 40>>
      [] r = "uncommon" -> <<50, 75>>
      [] r = "rare" -> <<100, 350>>
      [] r = "epic" -> <<500, 750>>
      [] r = "mythic" -> <<1000, 4750>>
      [] r = "legendary" -> <<5000, 9750>>

\* Rarity.to_star
to_star(r) ==
    CASE r = "common" -> 3
      [] r = "uncommon" -> 12
      [] r = "rare" -> 33
      [] r = "epic" -> 72
      [] r = "mythic" -> 138
      [] r = "legendary" -> 228
      [] r = "exotic" -> 486
      [] r = "nightmare" -> 972

\* Rarity.get_valuable_rarities: EXOTIC, NIGHTMARE, *Rarity.get_exclusive_rarities()
get_valuable_rarities == {"exotic", "nightmare"} \cup {"exclusive_icicle"}

\* CardFactory.downgrade / CardFactory.upgrade
downgrade_nothing(c) == c

downgrade(c) ==
    CASE c = "pristine" -> "mint"
      [] c = "mint" -> "near_mint"
      [] c = "near_mint" -> "good"
      [] c = "good" -> "poor"
      [] c = "poor" -> "damaged"
      [] c = "damaged" -> "damaged"

\* an upgrade that jumps from good straight to mint
upgrade_skips(c) ==
    CASE c = "damaged" -> "poor"
      [] c = "poor" -> "good"
      [] c = "good" -> "mint"
      [] c = "near_mint" -> "mint"
      [] c = "mint" -> "pristine"
      [] c = "pristine" -> "pristine"

upgrade(c) ==
    CASE c = "damaged" -> "poor"
      [] c = "poor" -> "good"
      [] c = "good" -> "near_mint"
      [] c = "near_mint" -> "mint"
      [] c = "mint" -> "pristine"
      [] c = "pristine" -> "pristine"

\* Python's round() of n/2 for an integer n >= 0: halves go to the even side
RoundHalf(n) ==
    IF n % 2 = 0 THEN n \div 2
    ELSE IF (n \div 2) % 2 = 0 THEN n \div 2 ELSE (n \div 2) + 1

\* a cost of twice the star value
StarCostTimes2(v) == 2 * v

\* round(star_cost * 2.5), forge.py
StarCostTimes2_5(v) == RoundHalf(5 * v)



(***************************************************************************)
(* Static content tables (source/json/*.json, read by source/entity.py).   *)
(***************************************************************************)
\* CraftableCharacterEntity: one craftable character and its requirements
CraftableRarity == "nightmare"
required_characters == [ch \in {"X"} |-> 1]
required_items == [it \in {"glistening_gem"} |-> 1]

\* ItemEntity: the purchasable items, their price and currency
Purchasable == {"fusion_crystal", "backpack_upgrade"}
ItemPrice(item) == IF item = "fusion_crystal" THEN 10 ELSE 0
ItemCurrency(item) == "silver"

(***************************************************************************)
(* Bounds of the model.                                                    *)
(***************************************************************************)
\* the largest amount an item is bought in
MaxAmount == 1
\* the silver and star a user starts with, and the cards' age in days
InitSilver == 10
InitStar == 2430
InitDays == 0
\* the oldest card of the burn rewards, in days: one day past the cap of 60
MaxDays == 61

VARIABLES
    cards,      \* the cards table: card_id -> row, for the rows that exist
    users,      \* the users table: user -> balances and backpack level
    levels,     \* the levels table: user -> current_level
    inv,        \* the inventory table: user -> item -> amount (0: no row)
    cooldown,   \* command.extras["cooldown"]: command -> user -> bucket used up
    tasks,      \* the interaction tasks: position, proposal, confirmation view
    daily,      \* the daily table: the users that have a row
    vote,       \* the vote table: the users that have a row
    now,        \* time.time(), in seconds
    bucket      \* command -> user -> the Cooldown of the command's CooldownMapping

vars == <<cards, users, levels, inv, cooldown, tasks, daily, vote, now, bucket>>
storage == <<cards, users, levels, inv>>

\* resettable_cooldown(rate, per) of each gated command: per, in seconds
per == [drop |-> 15, burn |-> 60, craft |-> 60]

\* commands.CooldownMapping.from_cooldown(rate, per, predicate) with rate 1: a
\* Cooldown for each user, its tokens at the rate and its window at 0.0
from_cooldown == [cmd \in DOMAIN per |-> [u \in Users |-> [tokens |-> 1, window |-> 0]]]

GatedCommands == {"burn", "craft"}

Card(owner, rarity, condition, special, character, locked) ==
    [owner |-> owner, rarity |-> rarity, condition |-> condition,
     special_rarity |-> special, character_name |-> character,
     locked |-> locked, has_sleeve |-> FALSE, days |-> InitDays]

Init ==
    /\ \E la, lb, lc \in BOOLEAN :
         cards = ("a" :> Card("u1", "common", "mint", "unknown", "X", la))
              @@ ("b" :> Card("u1", "common", "near_mint", "unknown", "X", lb))
              @@ ("c" :> Card("u2", "common", "mint", "unknown", "Y", lc))
    /\ users = [u \in Users |->
                  [silver |-> InitSilver, star |-> InitStar, gem |-> 0,
                   voucher |-> 0, backpack_level |-> 1]]
    /\ levels = [u \in Users |-> 5]
    /\ inv = [u \in Users |-> [it \in Items |->
                  IF it \in {"glistening_gem", "fusion_crystal"} THEN 1 ELSE 0]]
    /\ cooldown = [cmd \in GatedCommands |-> [u \in Users |-> FALSE]]
    /\ tasks = [t \in Tasks |-> [pc |-> "idle"]]
    /\ daily = Users
    /\ vote = Users
    /\ now = 0
    /\ bucket = from_cooldown

(***************************************************************************)
(* Persistence gateway: source/utils/psql.py.  Each operator is the value  *)
(* the table has after the statement.                                      *)
(***************************************************************************)
\* Card.get_card / Card.get_cards_by_card_id: the rows with these ids, any owner
get_cards_by_card_id(ids) == ids \cap DOMAIN cards

\* Card.get_cards: the rows the user owns
get_cards(u) == {c \in DOMAIN cards : cards[c].owner = u}

\* Card.get_cards_by_character_name
get_cards_by_character_name(u, ch) ==
    {c \in DOMAIN cards : cards[c].owner = u /\ cards[c].character_name = ch}

\* Card.delete_card / Card.delete_cards_by_card_id: DELETE ... WHERE card_id = ANY(ids)
delete_cards_by_card_id(tbl, ids) == [c \in DOMAIN tbl \ ids |-> tbl[c]]

\* Card.add_card: INSERT of a row whose card_id is free
add_card(tbl, id, row) == [c \in DOMAIN tbl \cup {id} |-> IF c = id THEN row ELSE tbl[c]]

\* User.set_silver / set_star / set_gem / set_voucher: balance = balance + amount
set_balance(tbl, u, currency, amount) ==
    [tbl EXCEPT ![u][currency] = @ + amount]

\* Inventory.add_item: upsert, amount = amount + n
add_item(tbl, u, item, n) == [tbl EXCEPT ![u][item] = @ + n]

\* Inventory.remove_item: amount = amount - n, then the rows with amount < 1 go
remove_item(tbl, u, item, n) ==
    [tbl EXCEPT ![u][item] = IF @ - n < 1 THEN 0 ELSE @ - n]

\* a reset_command_cooldown that resets nothing
reset_command_cooldown_nothing(cd, cmd, u) == cd

(***************************************************************************)
(* Cooldown: source/utils/cooldown.py                                      *)
(***************************************************************************)
\* reset_command_cooldown: bucket.reset() of this user's bucket of this command
reset_command_cooldown(cd, cmd, u) == [cd EXCEPT ![cmd][u] = FALSE]

\* resettable_cooldown.wrapper: update_rate_limit uses the bucket's one token
update_rate_limit(cd, cmd, u) == [cd EXCEPT ![cmd][u] = TRUE]

\* the cooldown window of a bucket goes by
CooldownElapses(cmd, u) ==
    /\ cooldown[cmd][u]
    /\ cooldown' = reset_command_cooldown(cooldown, cmd, u)
    /\ UNCHANGED <<storage, tasks>>
    /\ UNCHANGED <<daily, vote, now, bucket>>

(***************************************************************************)
(* Confirmation views: source/utils/view.py                                *)
(***************************************************************************)
\* Confirm.__init__: a discord.ui.View with the library's finite timeout
Confirm(author) ==
    [kind |-> "Confirm", author |-> author, value |-> "None",
     stopped |-> FALSE, has_timeout |-> TRUE, by |-> "nobody", denied |-> {}]

\* EmbedPaginatorWithConfirm.__init__: EmbedPaginator passes timeout=None
EmbedPaginatorWithConfirm(author) ==
    [kind |-> "EmbedPaginatorWithConfirm", author |-> author, value |-> "None",
     stopped |-> FALSE, has_timeout |-> FALSE, by |-> "nobody", denied |-> {}]

\* an interaction_check that lets everybody in
interaction_check_anybody(view, user) == view.author = view.author

\* Confirm.interaction_check / EmbedPaginatorWithConfirm.interaction_check
interaction_check(view, user) == view.author = user

\* Confirm.confirm / Confirm.cancel: the button callbacks
confirm(view, user) == [view EXCEPT !.value = "True", !.stopped = TRUE, !.by = user]
cancel(view, user) == [view EXCEPT !.value = "False", !.stopped = TRUE, !.by = user]

Waiting(t) == tasks[t].pc = "wait"

\* a user presses the accept or the decline button of a view that is still open;
\* the library runs the button's callback only if interaction_check returns True
PressButton(t, user, button) ==
    /\ Waiting(t)
    /\ ~tasks[t].view.stopped
    /\ interaction_check(tasks[t].view, user)
    /\ tasks' = [tasks EXCEPT ![t].view =
                    IF button = "confirm" THEN confirm(@, user) ELSE cancel(@, user)]
    /\ UNCHANGED <<storage, cooldown>>
    /\ UNCHANGED <<daily, vote, now, bucket>>

\* interaction_check answers the press of anybody else with "You don't have the
\* permission to do that." and returns False: no button callback runs
PressDenied(t, user, button) ==
    /\ Waiting(t)
    /\ ~tasks[t].view.stopped
    /\ ~interaction_check(tasks[t].view, user)
    /\ tasks' = [tasks EXCEPT ![t].view.denied = @ \cup {user}]
    /\ UNCHANGED <<storage, cooldown>>
    /\ UNCHANGED <<daily, vote, now, bucket>>

\* the view's timeout goes by with no accepted input: View.wait() returns, value None
ViewTimeout(t) ==
    /\ Waiting(t)
    /\ ~tasks[t].view.stopped
    /\ tasks[t].view.has_timeout
    /\ tasks' = [tasks EXCEPT ![t].view.stopped = TRUE]
    /\ UNCHANGED <<storage, cooldown>>
    /\ UNCHANGED <<daily, vote, now, bucket>>

\* what is kept of a task that has ended: its command and actor, its result, the
\* value its view ended with, how often the view's callback was run, and whether
\* it was a burn of locked cards only
\* the task ends without its view's callback
Done(t, result) ==
    [tasks EXCEPT ![t] =
        [pc |-> "done", cmd |-> tasks[t].cmd, actor |-> tasks[t].actor,
         kind |-> tasks[t].kind, result |-> result, value |-> tasks[t].view.value,
         runs |-> tasks[t].runs, only_locked |-> tasks[t].only_locked]]

\* the task ends in the callback of its view
DoneInCallback(t, result) == [Done(t, result) EXCEPT ![t].runs = @ + 1]

\* the callback of the view has passed its checks and goes on to its writes
ToApply(t) == [tasks EXCEPT ![t].pc = "apply", ![t].runs = @ + 1]

\* the task ends before any view was shown
RejectBurn(t, cmd, u, kind, result, only_locked) ==
    [tasks EXCEPT ![t] = [pc |-> "done", cmd |-> cmd, actor |-> u, kind |-> kind,
                          result |-> result, value |-> "NoView", runs |-> 0,
                          only_locked |-> only_locked]]
Reject(t, cmd, u, kind, result) == RejectBurn(t, cmd, u, kind, result, FALSE)

\* a wait_for_confirmation that runs the callback for every pressed button
wait_for_confirmation_any_button(t, Callback) ==
    /\ Waiting(t)
    /\ tasks[t].view.stopped
    /\ CASE tasks[t].view.value = "None" ->
              /\ cooldown' = IF tasks[t].cmd \in GatedCommands
                             THEN reset_command_cooldown(cooldown, tasks[t].cmd, tasks[t].actor)
                             ELSE cooldown
              /\ tasks' = Done(t, "expired")
              /\ UNCHANGED storage
         [] tasks[t].view.value \in {"True", "False"} -> Callback

\* a wait_for_confirmation that leaves the cooldown alone when the view times out
wait_for_confirmation_no_reset(t, Callback) ==
    /\ Waiting(t)
    /\ tasks[t].view.stopped
    /\ CASE tasks[t].view.value = "None" ->
              /\ tasks' = Done(t, "expired")
              /\ UNCHANGED <<storage, cooldown>>
         [] tasks[t].view.value = "True" -> Callback
         [] tasks[t].view.value = "False" ->
              /\ tasks' = Done(t, "canceled")
              /\ UNCHANGED <<storage, cooldown>>

\* wait_for_confirmation, after `await _view.wait()` has returned
wait_for_confirmation(t, Callback) ==
    /\ Waiting(t)
    /\ tasks[t].view.stopped
    /\ CASE tasks[t].view.value = "None" ->
              /\ cooldown' = IF tasks[t].cmd \in GatedCommands
                             THEN reset_command_cooldown(cooldown, tasks[t].cmd, tasks[t].actor)
                             ELSE cooldown
              /\ tasks' = Done(t, "expired")
              /\ UNCHANGED storage
         [] tasks[t].view.value = "True" -> Callback
         [] tasks[t].view.value = "False" ->
              /\ tasks' = Done(t, "canceled")
              /\ UNCHANGED <<storage, cooldown>>

\* a task that shows a proposal and waits for its view
ProposeBurn(t, cmd, actor, kind, p, view, only_locked) ==
    [tasks EXCEPT ![t] = [pc |-> "wait", cmd |-> cmd, actor |-> actor, kind |-> kind,
                          p |-> p, view |-> view, runs |-> 0,
                          only_locked |-> only_locked]]
Propose(t, cmd, actor, kind, p, view) == ProposeBurn(t, cmd, actor, kind, p, view, FALSE)

(***************************************************************************)
(* Burn: source/cogs/card.py                                               *)
(***************************************************************************)
\* random.randint(*card.rarity.to_silver()): the ends of the range
SilverSamples(r) == {to_silver(r)[1], to_silver(r)[2]}

\* a silver reward whose age bonus is not capped
BurnSilver_uncapped(base, days) == base + days * (base \div 4)

\* the reward of one card: sampled base plus the age bonus, days capped at 60
BurnSilver(base, days) == base + (IF days < 60 THEN days ELSE 60) * (base \div 4)
BurnStar(c, days) ==
    condition_to_star(c) + (IF days < 60 THEN days ELSE 60) * (condition_to_star(c) \div 4)

RECURSIVE SumOver(_, _)
SumOver(S, f) ==
    IF S = {} THEN 0
    ELSE LET x == CHOOSE y \in S : TRUE IN f[x] + SumOver(S \ {x}, f)

\* the totals of a burn of the cards `valid`, with base[c] the silver sampled for c
BurnTotals(valid, base) ==
    [valid_card_ids |-> valid,
     total_silver |-> SumOver(valid, [c \in valid |-> BurnSilver(base[c], cards[c].days)]),
     total_star |-> SumOver(valid, [c \in valid |-> BurnStar(cards[c].condition, cards[c].days)]),
     total_glistening_gem |-> Cardinality({c \in valid : cards[c].special_rarity = "shiny"}),
     has_shiny |-> \E c \in valid : cards[c].special_rarity = "shiny"]

Samplings(valid) ==
    {base \in [valid -> UNION {SilverSamples(cards[c].rarity) : c \in valid}] :
        \A c \in valid : base[c] \in SilverSamples(cards[c].rarity)}

\* the cards a burn is about are all locked (and there is one)
OnlyLocked(S) == S # {} /\ \A c \in S : cards[c].locked

\* _handle_single_card_burn, with cd the cooldown mapping after the command's check
_handle_single_card_burn(t, u, cd, c) ==
    IF cards[c].rarity \in get_valuable_rarities
    THEN /\ cooldown' = reset_command_cooldown(cd, "burn", u)
         /\ tasks' = RejectBurn(t, "burn", u, "one", "too_valuable", cards[c].locked)
    ELSE IF cards[c].locked
    THEN /\ cooldown' = reset_command_cooldown(cd, "burn", u)
         /\ tasks' = RejectBurn(t, "burn", u, "one", "locked", TRUE)
    ELSE \E base \in SilverSamples(cards[c].rarity) :
         /\ cooldown' = cd
         /\ tasks' = ProposeBurn(t, "burn", u, "one",
                [card_id |-> c, special_rarity |-> cards[c].special_rarity,
                 total_silver |-> BurnSilver(base, cards[c].days),
                 total_star |-> BurnStar(cards[c].condition, cards[c].days),
                 glistening_gem |-> 1],
                Confirm(u), FALSE)

\* _handle_multiple_card_burn on the rows found for the ids given
_handle_multiple_card_burn(t, u, cd, found) ==
    LET invalid == {c \in found : \/ cards[c].rarity \in get_valuable_rarities
                                  \/ cards[c].owner # u
                                  \/ cards[c].locked}
        valid == found \ invalid
    IN  IF Cardinality(invalid) = Cardinality(found)
        THEN /\ cooldown' = reset_command_cooldown(cd, "burn", u)
             /\ tasks' = RejectBurn(t, "burn", u, "many", "cannot_be_burned", OnlyLocked(found))
        ELSE \E base \in Samplings(valid) :
             /\ cooldown' = cd
             /\ tasks' = ProposeBurn(t, "burn", u, "many", BurnTotals(valid, base),
                                     EmbedPaginatorWithConfirm(u), OnlyLocked(found))

\* _handle_all_card_burn
_handle_all_card_burn(t, u, cd) ==
    LET owned == get_cards(u)
        valid == {c \in owned : ~cards[c].locked /\ cards[c].rarity \notin get_valuable_rarities}
        invalid_card_count ==
            Cardinality({c \in owned : ~cards[c].locked /\ cards[c].rarity \in get_valuable_rarities})
    IN  IF owned = {}
        THEN /\ cooldown' = cd
             /\ tasks' = RejectBurn(t, "burn", u, "all", "no_cards", FALSE)
        ELSE IF invalid_card_count = Cardinality(owned)
        THEN /\ cooldown' = reset_command_cooldown(cd, "burn", u)
             /\ tasks' = RejectBurn(t, "burn", u, "all", "cannot_be_burned", OnlyLocked(owned))
        ELSE \E base \in Samplings(valid) :
             /\ cooldown' = cd
             /\ tasks' = ProposeBurn(t, "burn", u, "all", BurnTotals(valid, base), Confirm(u),
                                     OnlyLocked(owned))

\* CardCog.card_burn with one card id, several distinct card ids, or "all";
\* dup: the ids given hold a duplicate
card_burn(t, u, kind, ids, dup) ==
    /\ tasks[t].pc = "idle"
    /\ UNCHANGED storage
    /\ IF cooldown["burn"][u]
       THEN /\ tasks' = Reject(t, "burn", u, kind, "on_cooldown")
            /\ UNCHANGED cooldown
       ELSE LET cd == update_rate_limit(cooldown, "burn", u) IN
            CASE kind = "all" -> _handle_all_card_burn(t, u, cd)
              [] kind = "one" ->
                   (\E c \in ids :
                      IF c \notin DOMAIN cards
                      THEN /\ cooldown' = reset_command_cooldown(cd, "burn", u)
                           /\ tasks' = Reject(t, "burn", u, kind, "not_found")
                      ELSE IF cards[c].owner # u
                      THEN /\ cooldown' = reset_command_cooldown(cd, "burn", u)
                           /\ tasks' = Reject(t, "burn", u, kind, "not_owner")
                      ELSE _handle_single_card_burn(t, u, cd, c))
              [] kind = "many" ->
                   IF dup
                   THEN /\ cooldown' = reset_command_cooldown(cd, "burn", u)
                        /\ tasks' = Reject(t, "burn", u, kind, "duplicate_ids")
                   ELSE IF get_cards_by_card_id(ids) = {}
                   THEN /\ cooldown' = reset_command_cooldown(cd, "burn", u)
                        /\ tasks' = Reject(t, "burn", u, kind, "not_found")
                   ELSE _handle_multiple_card_burn(t, u, cd, get_cards_by_card_id(ids))
    /\ UNCHANGED <<daily, vote, now, bucket>>

\* the writes of a confirmed burn: silver, star, glistening gems, then the delete
BurnWrites(t, ids, silver, star, gems, shiny) ==
    LET u == tasks[t].actor IN
    /\ users' = set_balance(set_balance(users, u, "silver", silver), u, "star", star)
    /\ inv' = IF shiny THEN add_item(inv, u, "glistening_gem", gems) ELSE inv
    /\ cards' = delete_cards_by_card_id(cards, ids)
    \* the card ids that were burnt are kept with the task
    /\ tasks' = [Done(t, "success") EXCEPT ![t] = @ @@ [burnt |-> ids]]
    /\ UNCHANGED <<levels, cooldown>>

IsWaiting(t, cmd, kind) ==
    /\ Waiting(t)
    /\ tasks[t].cmd = cmd
    /\ tasks[t].kind = kind

IsApplying(t, cmd, kind) ==
    /\ tasks[t].pc = "apply"
    /\ tasks[t].cmd = cmd
    /\ tasks[t].kind = kind

\* _confirm_single_card_burn up to its check: get_card finds the row or not
_confirm_single_card_burn(t) ==
    /\ IsWaiting(t, "burn", "one")
    /\ wait_for_confirmation(t,
          /\ tasks' = IF tasks[t].p.card_id \notin DOMAIN cards
                      THEN DoneInCallback(t, "vanished")
                      ELSE ToApply(t)
          /\ UNCHANGED <<storage, cooldown>>)
    /\ UNCHANGED <<daily, vote, now, bucket>>

\* _confirm_single_card_burn after its check
_confirm_single_card_burn_writes(t) ==
    /\ IsApplying(t, "burn", "one")
    /\ BurnWrites(t, {tasks[t].p.card_id}, tasks[t].p.total_silver, tasks[t].p.total_star,
                  tasks[t].p.glistening_gem, tasks[t].p.special_rarity = "shiny")
    /\ UNCHANGED <<daily, vote, now, bucket>>

\* _confirm_multiple_card_burn up to its check: rejected only if no row is left
_confirm_multiple_card_burn(t) ==
    /\ IsWaiting(t, "burn", "many")
    /\ wait_for_confirmation(t,
          /\ tasks' = IF get_cards_by_card_id(tasks[t].p.valid_card_ids) = {}
                      THEN DoneInCallback(t, "vanished")
                      ELSE ToApply(t)
          /\ UNCHANGED <<storage, cooldown>>)
    /\ UNCHANGED <<daily, vote, now, bucket>>

\* _confirm_all_card_burn up to its check: rejected unless every row is left
_confirm_all_card_burn(t) ==
    /\ IsWaiting(t, "burn", "all")
    /\ wait_for_confirmation(t,
          IF get_cards_by_card_id(tasks[t].p.valid_card_ids) # tasks[t].p.valid_card_ids
             \/ tasks[t].p.valid_card_ids = {}
          THEN /\ cooldown' = reset_command_cooldown(cooldown, "burn", tasks[t].actor)
               /\ tasks' = DoneInCallback(t, "vanished")
               /\ UNCHANGED storage
          ELSE /\ tasks' = ToApply(t)
               /\ UNCHANGED <<storage, cooldown>>)
    /\ UNCHANGED <<daily, vote, now, bucket>>

\* _confirm_multiple_card_burn / _confirm_all_card_burn after the check
_confirm_cards_burn_writes(t) ==
    /\ \/ IsApplying(t, "burn", "many")
       \/ IsApplying(t, "burn", "all")
    /\ BurnWrites(t, tasks[t].p.valid_card_ids, tasks[t].p.total_silver,
                  tasks[t].p.total_star, tasks[t].p.total_glistening_gem,
                  tasks[t].p.has_shiny)
    /\ UNCHANGED <<daily, vote, now, bucket>>

(***************************************************************************)
(* Card generation as the forge uses it: source/cogs/card.py               *)
(***************************************************************************)
\* CardFactory.generate_card_id: six random characters, not checked against storage
NewCardIds == {"c", "d"}

\* CardFactory.add_character: a random character of the rarity's roster; Troll
\* is one of the common characters
Roster(r) == IF r = "common" THEN {"X", "Troll"} ELSE {"Z"}

\* CardFactory.generate_special_rarity
SpecialSamples == {"unknown", "shiny"}

\* the row Card.add_card inserts: locked and has_sleeve take the column defaults
NewRow(owner, rarity, condition, special, character) ==
    [owner |-> owner, rarity |-> rarity, condition |-> condition,
     special_rarity |-> special, character_name |-> character,
     locked |-> FALSE, has_sleeve |-> FALSE, days |-> 0]

\* Card.add_card of a card_id that is taken: the INSERT fails and the task ends there
InsertOrFail(t, tbl, id, row) ==
    /\ cards' = IF id \in DOMAIN tbl THEN tbl ELSE add_card(tbl, id, row)
    /\ tasks' = Done(t, IF id \in DOMAIN tbl THEN "insert_failed" ELSE "success")

(***************************************************************************)
(* Forge: source/cogs/forge.py                                             *)
(***************************************************************************)
\* Forge.forge_fusion
forge_fusion(t, u, first_card_id, second_card_id) ==
    /\ tasks[t].pc = "idle"
    /\ UNCHANGED <<storage, cooldown>>
    /\ LET found == get_cards_by_card_id({first_card_id, second_card_id}) IN
       IF inv[u]["fusion_crystal"] = 0 THEN tasks' = Reject(t, "fusion", u, "fusion", "no_fusion_crystal")
       ELSE IF Cardinality(found) < 2 THEN tasks' = Reject(t, "fusion", u, "fusion", "not_found")
       ELSE \E c1 \in found : \E c2 \in found \ {c1} :
            LET card1 == cards[c1]
                card2 == cards[c2]
                best_condition == IF level(card1.condition) >= level(card2.condition)
                                  THEN card1.condition ELSE card2.condition
                new_condition == IF card1.condition = card2.condition
                                 THEN card1.condition ELSE downgrade(best_condition)
                star_cost == IF card1.special_rarity # "shiny"
                             THEN StarCostTimes2_5(to_star(card1.rarity))
                             ELSE to_star(card1.rarity) * 20
            IN  IF card1.owner # u \/ card2.owner # u THEN tasks' = Reject(t, "fusion", u, "fusion", "not_owner")
                ELSE IF card1.rarity # card2.rarity THEN tasks' = Reject(t, "fusion", u, "fusion", "rarity_differs")
                ELSE IF card1.special_rarity # card2.special_rarity /\ card1.special_rarity = "shiny"
                THEN tasks' = Reject(t, "fusion", u, "fusion", "both_must_be_shiny")
                ELSE IF card1.rarity \in get_valuable_rarities
                THEN tasks' = Reject(t, "fusion", u, "fusion", "too_valuable")
                ELSE \E ch \in Roster(card1.rarity) :
                     \* generate_card: if character_name == "Troll": card_id = "7R0115"
                     \E id \in (IF ch = "Troll" THEN {"7R0115"} ELSE NewCardIds) :
                     tasks' = Propose(t, "fusion", u, "fusion",
                        [first_card_id |-> first_card_id, second_card_id |-> second_card_id,
                         star |-> users[u].star, star_cost |-> star_cost, card_id |-> id,
                         row |-> NewRow(card1.owner, card1.rarity, new_condition,
                                        card1.special_rarity, ch)],
                        Confirm(u))
    /\ UNCHANGED <<daily, vote, now, bucket>>

\* _confirm_forge_fusion up to its checks: both rows exist, the star balance read
\* when the command was invoked covers the cost
_confirm_forge_fusion(t) ==
    /\ IsWaiting(t, "fusion", "fusion")
    /\ wait_for_confirmation(t,
          /\ tasks' =
               IF Cardinality(get_cards_by_card_id(
                      {tasks[t].p.first_card_id, tasks[t].p.second_card_id})) < 2
               THEN DoneInCallback(t, "vanished")
               ELSE IF tasks[t].p.star < tasks[t].p.star_cost
               THEN DoneInCallback(t, "not_enough_star")
               ELSE ToApply(t)
          /\ UNCHANGED <<storage, cooldown>>)
    /\ UNCHANGED <<daily, vote, now, bucket>>

\* _confirm_forge_fusion after its checks: set_star, delete_cards_by_card_id, add_card
_confirm_forge_fusion_writes(t) ==
    /\ IsApplying(t, "fusion", "fusion")
    /\ users' = set_balance(users, tasks[t].actor, "star", 0 - tasks[t].p.star_cost)
    /\ InsertOrFail(t, delete_cards_by_card_id(cards,
                          {tasks[t].p.first_card_id, tasks[t].p.second_card_id}),
                    tasks[t].p.card_id, tasks[t].p.row)
    /\ UNCHANGED <<levels, inv, cooldown>>
    /\ UNCHANGED <<daily, vote, now, bucket>>

\* the requirement checks _confirm_forge_craft and _confirm_forge_craft_final share
MissingCards(u) ==
    \E ch \in DOMAIN required_characters :
        Cardinality({c \in get_cards_by_character_name(u, ch) : ~cards[c].locked})
            < required_characters[ch]
MissingItems(u) ==
    \E it \in DOMAIN required_items : inv[u][it] < required_items[it]

\* Forge.forge_craft
forge_craft(t, u) ==
    /\ tasks[t].pc = "idle"
    /\ UNCHANGED storage
    /\ IF cooldown["craft"][u]
       THEN /\ tasks' = Reject(t, "craft", u, "first", "on_cooldown")
            /\ UNCHANGED cooldown
       ELSE /\ cooldown' = update_rate_limit(cooldown, "craft", u)
            /\ tasks' = Propose(t, "craft", u, "first",
                  [star |-> users[u].star,
                   star_cost |-> StarCostTimes2_5(to_star(CraftableRarity))],
                  EmbedPaginatorWithConfirm(u))
    /\ UNCHANGED <<daily, vote, now, bucket>>

\* a craft is rejected: every rejection of the craft callbacks resets the cooldown
CraftRejected(t, result) ==
    /\ cooldown' = reset_command_cooldown(cooldown, "craft", tasks[t].actor)
    /\ tasks' = DoneInCallback(t, result)
    /\ UNCHANGED storage

\* _confirm_forge_craft: the callback of the first prompt, which shows the second
_confirm_forge_craft(t) ==
    /\ IsWaiting(t, "craft", "first")
    /\ wait_for_confirmation(t,
          LET u == tasks[t].actor IN
          IF tasks[t].p.star < tasks[t].p.star_cost THEN CraftRejected(t, "not_enough_star")
          ELSE IF MissingCards(u) THEN CraftRejected(t, "missing_cards")
          ELSE IF MissingItems(u) THEN CraftRejected(t, "missing_items")
          ELSE \E required_cards \in
                      \* for each character, required_amount unlocked cards
                      {S \in SUBSET {c \in get_cards(u) : ~cards[c].locked} :
                          /\ \A c \in S : cards[c].character_name \in DOMAIN required_characters
                          /\ \A ch \in DOMAIN required_characters :
                                Cardinality({c \in S : cards[c].character_name = ch})
                                    = required_characters[ch]} :
               \E id \in NewCardIds : \E special \in SpecialSamples :
               LET sum == SumOver(required_cards,
                                  [c \in required_cards |-> level(cards[c].condition)])
                   condition == CHOOSE c \in Conditions :
                                    level(c) = sum \div Cardinality(required_cards)
               IN /\ tasks' = Propose(t, "craft", u, "final",
                        [star_cost |-> tasks[t].p.star_cost,
                         required_cards |-> required_cards, card_id |-> id,
                         row |-> NewRow(u, CraftableRarity, condition, special, "N")],
                        Confirm(u))
                  /\ UNCHANGED <<storage, cooldown>>)
    /\ UNCHANGED <<daily, vote, now, bucket>>

\* _confirm_forge_craft_final up to its checks: the cards and the items, not the star
_confirm_forge_craft_final(t) ==
    /\ IsWaiting(t, "craft", "final")
    /\ wait_for_confirmation(t,
          LET u == tasks[t].actor IN
          IF MissingCards(u) THEN CraftRejected(t, "missing_cards")
          ELSE IF MissingItems(u) THEN CraftRejected(t, "missing_items")
          ELSE /\ tasks' = ToApply(t)
               /\ UNCHANGED <<storage, cooldown>>)
    /\ UNCHANGED <<daily, vote, now, bucket>>

RECURSIVE RemoveItems(_, _, _)
RemoveItems(tbl, u, its) ==
    IF its = {} THEN tbl
    ELSE LET it == CHOOSE i \in its : TRUE
         IN RemoveItems(remove_item(tbl, u, it, required_items[it]), u, its \ {it})

\* _confirm_forge_craft_final after its checks
_confirm_forge_craft_final_writes(t) ==
    /\ IsApplying(t, "craft", "final")
    /\ inv' = RemoveItems(inv, tasks[t].actor, DOMAIN required_items)
    /\ users' = set_balance(users, tasks[t].actor, "star", 0 - tasks[t].p.star_cost)
    /\ InsertOrFail(t, delete_cards_by_card_id(cards, tasks[t].p.required_cards),
                    tasks[t].p.card_id, tasks[t].p.row)
    /\ UNCHANGED <<levels, cooldown>>
    /\ UNCHANGED <<daily, vote, now, bucket>>

(***************************************************************************)
(* Shop: source/cogs/item.py                                               *)
(***************************************************************************)
required_level == 5
max_backpack_level == 5

\* the upgrade price without the 50 taken off at the end
_calculate_backpack_upgrade_price_plus_50(backpack_level) ==
    RoundHalf((50 * backpack_level) * backpack_level) + (50 * backpack_level) * 2

\* _calculate_backpack_upgrade_price: round(((50*L)*(L/2) + (50*L)*2) - 50)
_calculate_backpack_upgrade_price(backpack_level) ==
    RoundHalf((50 * backpack_level) * backpack_level) + (50 * backpack_level) * 2 - 50

\* utils.is_patreon / utils.has_minimum_patreon_role: the second user holds the
\* patreon role of tier 2, the first user holds none
is_patreon(member) == member = "u2"
has_minimum_patreon_role(member, minimum_tier) == is_patreon(member) /\ 2 >= minimum_tier

\* item_buy: base_price -= base_price * 0.2; round(base_price)
PatreonPrice(base_price) == (8 * base_price + 5) \div 10

\* ItemCog.item_buy
item_buy(t, u, item, amount_to_buy) ==
    /\ tasks[t].pc = "idle"
    /\ UNCHANGED <<storage, cooldown>>
    /\ IF amount_to_buy < 1 THEN tasks' = Reject(t, "buy", u, "buy", "amount_not_positive")
       ELSE IF item \notin Purchasable THEN tasks' = Reject(t, "buy", u, "buy", "not_in_shop")
       ELSE IF levels[u] < required_level THEN tasks' = Reject(t, "buy", u, "buy", "level_too_low")
       ELSE IF item = "backpack_upgrade" /\ users[u].backpack_level = max_backpack_level
       THEN tasks' = Reject(t, "buy", u, "buy", "backpack_at_maximum")
       ELSE tasks' = Propose(t, "buy", u, "buy",
               [item |-> item, currency |-> ItemCurrency(item),
                user_table |-> users[u],
                backpack_level |-> users[u].backpack_level,
                base_price |-> IF item = "backpack_upgrade" THEN 0
                               ELSE IF is_patreon(u) THEN PatreonPrice(ItemPrice(item))
                               ELSE ItemPrice(item),
                amount_to_buy |-> IF item = "backpack_upgrade" THEN 1 ELSE amount_to_buy,
                total_price |-> IF item = "backpack_upgrade"
                                THEN _calculate_backpack_upgrade_price(users[u].backpack_level)
                                ELSE ItemPrice(item) * amount_to_buy],
               Confirm(u))
    /\ UNCHANGED <<daily, vote, now, bucket>>

\* _confirm_item_buy: its checks read the row fetched when the command was invoked,
\* and nothing is awaited between them and the first write
_confirm_item_buy(t) ==
    /\ IsWaiting(t, "buy", "buy")
    /\ wait_for_confirmation(t,
          LET p == tasks[t].p
              u == tasks[t].actor
          IN  IF p.user_table[p.currency] < p.total_price
              THEN /\ tasks' = DoneInCallback(t, "not_enough_currency")
                   /\ UNCHANGED <<storage, cooldown>>
              ELSE IF p.item = "backpack_upgrade" /\ p.backpack_level = max_backpack_level
              THEN /\ tasks' = DoneInCallback(t, "backpack_at_maximum")
                   /\ UNCHANGED <<storage, cooldown>>
              ELSE IF p.currency = "star"
              THEN /\ tasks' = DoneInCallback(t, "currency_not_defined")
                   /\ UNCHANGED <<storage, cooldown>>
              ELSE /\ users' = IF p.item = "backpack_upgrade"
                               THEN [set_balance(users, u, p.currency, 0 - p.total_price)
                                       EXCEPT ![u].backpack_level = @ + 1]
                               ELSE set_balance(users, u, p.currency, 0 - p.total_price)
                   /\ inv' = IF p.item = "backpack_upgrade" THEN inv
                             ELSE add_item(inv, u, p.item, p.amount_to_buy)
                   /\ tasks' = DoneInCallback(t, "success")
                   /\ UNCHANGED <<cards, levels, cooldown>>)
    /\ UNCHANGED <<daily, vote, now, bucket>>

\* ItemCog.item_recycle: half the price of a purchasable item, nothing for the others
item_recycle(t, u, item, amount_to_recycle) ==
    /\ tasks[t].pc = "idle"
    /\ UNCHANGED <<storage, cooldown>>
    /\ IF amount_to_recycle < 1
       THEN tasks' = Reject(t, "recycle", u, "recycle", "amount_not_positive")
       ELSE IF inv[u][item] = 0
       THEN tasks' = Reject(t, "recycle", u, "recycle", "not_in_inventory")
       ELSE IF inv[u][item] < amount_to_recycle
       THEN tasks' = Reject(t, "recycle", u, "recycle", "not_enough_items")
       ELSE tasks' = Propose(t, "recycle", u, "recycle",
               [item |-> item, amount_to_recycle |-> amount_to_recycle,
                currency |-> IF item \in Purchasable THEN ItemCurrency(item) ELSE "silver",
                total_price |-> IF item \notin Purchasable THEN 0
                                ELSE IF ItemPrice(item) > 1
                                THEN (ItemPrice(item) \div 2) * amount_to_recycle
                                ELSE amount_to_recycle],
               Confirm(u))
    /\ UNCHANGED <<daily, vote, now, bucket>>

\* _confirm_item_recycle: get_item is read again, then the currency and remove_item
_confirm_item_recycle(t) ==
    /\ IsWaiting(t, "recycle", "recycle")
    /\ wait_for_confirmation(t,
          LET p == tasks[t].p
              u == tasks[t].actor
          IN  IF inv[u][p.item] = 0
              THEN /\ tasks' = DoneInCallback(t, "not_in_inventory")
                   /\ UNCHANGED <<storage, cooldown>>
              ELSE IF inv[u][p.item] < p.amount_to_recycle
              THEN /\ tasks' = DoneInCallback(t, "not_enough_items")
                   /\ UNCHANGED <<storage, cooldown>>
              ELSE IF p.currency = "star"
              THEN /\ tasks' = DoneInCallback(t, "currency_not_defined")
                   /\ UNCHANGED <<storage, cooldown>>
              ELSE /\ users' = set_balance(users, u, p.currency, p.total_price)
                   /\ inv' = remove_item(inv, u, p.item, p.amount_to_recycle)
                   /\ tasks' = DoneInCallback(t, "success")
                   /\ UNCHANGED <<cards, levels, cooldown>>)
    /\ UNCHANGED <<daily, vote, now, bucket>>

(***************************************************************************)
(* Trade: source/cogs/uncategorized.py                                     *)
(***************************************************************************)
\* Card.change_card_owner: UPDATE ... WHERE card_id = id AND owner_id = the caller
change_card_owner(tbl, caller, id, new_owner) ==
    IF id \in DOMAIN tbl /\ tbl[id].owner = caller
    THEN [tbl EXCEPT ![id].owner = new_owner] ELSE tbl

\* Card.invert_has_sleeve: UPDATE ... SET has_sleeve = NOT has_sleeve
invert_has_sleeve(tbl, id) ==
    IF id \in DOMAIN tbl THEN [tbl EXCEPT ![id].has_sleeve = ~@] ELSE tbl

\* Card.invert_locked: UPDATE ... SET locked = NOT locked
invert_locked(tbl, id) ==
    IF id \in DOMAIN tbl THEN [tbl EXCEPT ![id].locked = ~@] ELSE tbl

\* Card.change_card_condition
change_card_condition(tbl, id, condition) ==
    IF id \in DOMAIN tbl THEN [tbl EXCEPT ![id].condition = condition] ELSE tbl

\* _card_downgrade on the card as it was read when the trade was offered
_card_downgrade(tbl, id, has_sleeve, condition) ==
    IF has_sleeve THEN invert_has_sleeve(tbl, id)
    ELSE change_card_condition(tbl, id, downgrade(condition))

\* Uncategorized.trade_card up to the offer; the view's author is the other user
trade_card(t, u, user, your_card, their_card) ==
    /\ tasks[t].pc = "idle"
    /\ UNCHANGED <<storage, cooldown>>
    /\ IF user = u THEN tasks' = Reject(t, "trade", u, "trade", "trade_with_yourself")
       ELSE IF levels[u] < required_level THEN tasks' = Reject(t, "trade", u, "trade", "level_too_low")
       \* their_psql_levels_table is read through psql_user, the initiator's handle
       ELSE IF levels[u] < required_level THEN tasks' = Reject(t, "trade", u, "trade", "their_level_too_low")
       ELSE IF your_card \notin DOMAIN cards THEN tasks' = Reject(t, "trade", u, "trade", "not_found")
       ELSE IF cards[your_card].owner # u THEN tasks' = Reject(t, "trade", u, "trade", "not_owner")
       ELSE IF their_card \notin DOMAIN cards THEN tasks' = Reject(t, "trade", u, "trade", "not_found")
       ELSE IF cards[their_card].owner # user THEN tasks' = Reject(t, "trade", u, "trade", "user_not_owner")
       ELSE tasks' = Propose(t, "trade", u, "trade",
               [user |-> user, your_card |-> your_card, their_card |-> their_card,
                first_trader_card |-> cards[your_card],
                second_trader_card |-> cards[their_card]],
               Confirm(user))
    /\ UNCHANGED <<daily, vote, now, bucket>>

\* Uncategorized.trade_card after view.wait(), up to its checks
trade_card_checks(t) ==
    /\ IsWaiting(t, "trade", "trade")
    /\ tasks[t].view.stopped
    /\ UNCHANGED <<storage, cooldown>>
    /\ LET p == tasks[t].p IN
       CASE tasks[t].view.value = "None" -> tasks' = Done(t, "expired")
         [] tasks[t].view.value = "False" -> tasks' = Done(t, "canceled")
         [] tasks[t].view.value = "True" ->
              IF p.your_card \notin DOMAIN cards \/ p.their_card \notin DOMAIN cards
              THEN tasks' = DoneInCallback(t, "vanished")
              ELSE IF cards[p.your_card].owner # tasks[t].actor
              THEN tasks' = DoneInCallback(t, "not_owner")
              ELSE IF cards[p.their_card].owner # p.user
              THEN tasks' = DoneInCallback(t, "user_not_owner")
              ELSE tasks' = ToApply(t)
    /\ UNCHANGED <<daily, vote, now, bucket>>

\* Uncategorized.trade_card after its checks: the two downgrade rolls, then the
\* first change_card_owner statement; `transferred` counts the rows the two
\* change_card_owner statements updated
trade_card_writes(t) ==
    /\ IsApplying(t, "trade", "trade")
    /\ \E trader_card_downgrade, second_trader_card_downgrade \in BOOLEAN :
         LET p == tasks[t].p
             t1 == IF trader_card_downgrade /\ p.first_trader_card.condition # "damaged"
                   THEN _card_downgrade(cards, p.your_card, p.first_trader_card.has_sleeve,
                                        p.first_trader_card.condition)
                   ELSE cards
             t2 == IF second_trader_card_downgrade /\ p.second_trader_card.condition # "damaged"
                   THEN _card_downgrade(t1, p.their_card, p.second_trader_card.has_sleeve,
                                        p.second_trader_card.condition)
                   ELSE t1
         IN  /\ cards' = change_card_owner(t2, tasks[t].actor, p.your_card, p.user)
             /\ tasks' = [tasks EXCEPT ![t] = [pc |-> "swap"] @@ @ @@
                             [transferred |-> IF cards' # t2 THEN 1 ELSE 0]]
    /\ UNCHANGED <<users, levels, inv, cooldown>>
    /\ UNCHANGED <<daily, vote, now, bucket>>

\* Uncategorized.trade_card: the second change_card_owner statement
trade_card_swap(t) ==
    /\ tasks[t].pc = "swap"
    /\ LET p == tasks[t].p IN
       /\ cards' = change_card_owner(cards, p.user, p.their_card, tasks[t].actor)
       /\ tasks' = [Done(t, "success") EXCEPT ![t] = @ @@
                       [transferred |-> tasks[t].transferred
                                          + (IF cards' # cards THEN 1 ELSE 0)]]
    /\ UNCHANGED <<users, levels, inv, cooldown>>
    /\ UNCHANGED <<daily, vote, now, bucket>>

(***************************************************************************)
(* Lock and unlock: source/cogs/card.py                                    *)
(***************************************************************************)
\* _handle_card_lock with one card id, then _handle_single_card_lock up to its write
card_lock(t, u, lock_option, c) ==
    /\ tasks[t].pc = "idle"
    /\ UNCHANGED <<storage, cooldown>>
    /\ IF c \notin DOMAIN cards THEN tasks' = Reject(t, "lock", u, lock_option, "not_found")
       ELSE IF cards[c].owner # u THEN tasks' = Reject(t, "lock", u, lock_option, "not_owner")
       ELSE IF lock_option = "lock" /\ cards[c].locked THEN tasks' = Reject(t, "lock", u, lock_option, "already_locked")
       ELSE IF lock_option = "unlock" /\ ~cards[c].locked
       THEN tasks' = Reject(t, "lock", u, lock_option, "already_unlocked")
       ELSE tasks' = [tasks EXCEPT ![t] =
               [pc |-> "apply", cmd |-> "lock", actor |-> u, kind |-> lock_option,
                p |-> [card_id |-> c]]]
    /\ UNCHANGED <<daily, vote, now, bucket>>

\* _handle_single_card_lock: invert_locked
card_lock_writes(t) ==
    /\ tasks[t].pc = "apply"
    /\ tasks[t].cmd = "lock"
    /\ cards' = invert_locked(cards, tasks[t].p.card_id)
    /\ tasks' = Reject(t, "lock", tasks[t].actor, tasks[t].kind, "success")
    /\ UNCHANGED <<users, levels, inv, cooldown>>
    /\ UNCHANGED <<daily, vote, now, bucket>>

(***************************************************************************)
(* The specification of the economy.                                       *)
(***************************************************************************)
ManyIds == {S \in SUBSET CardIds : Cardinality(S) = 2}

Next ==
    \/ \E t \in Tasks, u \in Users : \E c \in CardIds : card_burn(t, u, "one", {c}, FALSE)
    \/ \E t \in Tasks, u \in Users : \E ids \in ManyIds, dup \in BOOLEAN :
          card_burn(t, u, "many", ids, dup)
    \/ \E t \in Tasks, u \in Users : card_burn(t, u, "all", {}, FALSE)
    \/ \E t \in Tasks : _confirm_single_card_burn(t)
    \/ \E t \in Tasks : _confirm_single_card_burn_writes(t)
    \/ \E t \in Tasks : _confirm_multiple_card_burn(t)
    \/ \E t \in Tasks : _confirm_all_card_burn(t)
    \/ \E t \in Tasks : _confirm_cards_burn_writes(t)
    \/ \E t \in Tasks, u \in Users : \E c1, c2 \in CardIds : forge_fusion(t, u, c1, c2)
    \/ \E t \in Tasks : _confirm_forge_fusion(t)
    \/ \E t \in Tasks : _confirm_forge_fusion_writes(t)
    \/ \E t \in Tasks, u \in Users : forge_craft(t, u)
    \/ \E t \in Tasks : _confirm_forge_craft(t)
    \/ \E t \in Tasks : _confirm_forge_craft_final(t)
    \/ \E t \in Tasks : _confirm_forge_craft_final_writes(t)
    \/ \E t \in Tasks, u \in Users : \E item \in Items, n \in 0..MaxAmount :
          item_buy(t, u, item, n)
    \/ \E t \in Tasks : _confirm_item_buy(t)
    \/ \E t \in Tasks, u \in Users, user \in Users : \E c1, c2 \in CardIds :
          trade_card(t, u, user, c1, c2)
    \/ \E t \in Tasks : trade_card_checks(t)
    \/ \E t \in Tasks : trade_card_writes(t)
    \/ \E t \in Tasks : trade_card_swap(t)
    \/ \E t \in Tasks, u \in Users : \E o \in {"lock", "unlock"}, c \in CardIds :
          card_lock(t, u, o, c)
    \/ \E t \in Tasks : card_lock_writes(t)
    \/ \E t \in Tasks, u \in Users : \E b \in {"confirm", "cancel"} : PressButton(t, u, b)
    \/ \E t \in Tasks : ViewTimeout(t)
    \/ \E cmd \in GatedCommands, u \in Users : CooldownElapses(cmd, u)

\* the economy: every command, the presses of the users allowed to press, timeouts
Spec == Init /\ [][Next]_vars

\* ---------------------------------------------------------------------------
\* The confirmation sessions by themselves: the commands behind the burn and
\* craft cooldown buckets, with both kinds of view, and every user pressing
\* every button of every open view.

\* what a task does by itself once its view has stopped
TaskStep(t) ==
    \/ _confirm_single_card_burn(t)
    \/ _confirm_single_card_burn_writes(t)
    \/ _confirm_multiple_card_burn(t)
    \/ _confirm_cards_burn_writes(t)
    \/ _confirm_forge_craft(t)
    \/ _confirm_forge_craft_final(t)
    \/ _confirm_forge_craft_final_writes(t)

NextView ==
    \/ \E t \in Tasks, u \in Users : \E c \in CardIds : card_burn(t, u, "one", {c}, FALSE)
    \/ \E t \in Tasks, u \in Users : \E ids \in ManyIds, dup \in BOOLEAN :
          card_burn(t, u, "many", ids, dup)
    \/ \E t \in Tasks, u \in Users : forge_craft(t, u)
    \/ \E t \in Tasks : TaskStep(t)
    \/ \E t \in Tasks, u \in Users : \E b \in {"confirm", "cancel"} : PressButton(t, u, b)
    \/ \E t \in Tasks, u \in Users : \E b \in {"confirm", "cancel"} : PressDenied(t, u, b)
    \/ \E t \in Tasks : ViewTimeout(t)
    \/ \E cmd \in GatedCommands, u \in Users : CooldownElapses(cmd, u)

SpecView == Init /\ [][NextView]_vars

\* the event loop resumes a task whose view has stopped, and a view that has a
\* timeout stops when nobody presses; nothing obliges a user to invoke or press
FairSpecView ==
    SpecView /\ \A t \in Tasks : WF_vars(ViewTimeout(t)) /\ WF_vars(TaskStep(t))

\* ---------------------------------------------------------------------------
\* The forge next to the inventory: fusions, upgrades and the recycling of items.

\* Forge.forge_upgrade
forge_upgrade(t, u, card_id) ==
    /\ tasks[t].pc = "idle"
    /\ UNCHANGED <<storage, cooldown>>
    /\ IF card_id \notin DOMAIN cards
       THEN tasks' = Reject(t, "forge_upgrade", u, "upgrade", "not_found")
       ELSE IF cards[card_id].condition = "pristine"
       THEN tasks' = Reject(t, "forge_upgrade", u, "upgrade", "already_pristine")
       ELSE IF cards[card_id].owner # u
       THEN tasks' = Reject(t, "forge_upgrade", u, "upgrade", "not_owner")
       ELSE tasks' = Propose(t, "forge_upgrade", u, "upgrade",
               [card_id |-> card_id,
                new_condition |-> upgrade(cards[card_id].condition),
                upgrade_cost |-> IF cards[card_id].special_rarity = "shiny" THEN 4 ELSE 1],
               Confirm(u))
    /\ UNCHANGED <<daily, vote, now, bucket>>

\* _confirm_forge_upgrade up to its checks: the gems in the inventory cover the cost
_confirm_forge_upgrade(t) ==
    /\ IsWaiting(t, "forge_upgrade", "upgrade")
    /\ wait_for_confirmation(t,
          /\ tasks' =
               IF inv[tasks[t].actor]["glistening_gem"] = 0
               THEN DoneInCallback(t, "no_gems")
               ELSE IF inv[tasks[t].actor]["glistening_gem"] < tasks[t].p.upgrade_cost
               THEN DoneInCallback(t, "not_enough_gems")
               ELSE ToApply(t)
          /\ UNCHANGED <<storage, cooldown>>)
    /\ UNCHANGED <<daily, vote, now, bucket>>

\* _confirm_forge_upgrade after its checks: remove_item, change_card_condition
_confirm_forge_upgrade_writes(t) ==
    /\ IsApplying(t, "forge_upgrade", "upgrade")
    /\ inv' = remove_item(inv, tasks[t].actor, "glistening_gem", tasks[t].p.upgrade_cost)
    /\ cards' = change_card_condition(cards, tasks[t].p.card_id, tasks[t].p.new_condition)
    /\ tasks' = Done(t, "success")
    /\ UNCHANGED <<users, levels, cooldown>>
    /\ UNCHANGED <<daily, vote, now, bucket>>

NextForge ==
    \/ \E t \in Tasks, u \in Users : \E c \in CardIds : forge_upgrade(t, u, c)
    \/ \E t \in Tasks : _confirm_forge_upgrade(t)
    \/ \E t \in Tasks : _confirm_forge_upgrade_writes(t)
    \/ \E t \in Tasks, u \in Users : \E c1, c2 \in CardIds : forge_fusion(t, u, c1, c2)
    \/ \E t \in Tasks : _confirm_forge_fusion(t)
    \/ \E t \in Tasks : _confirm_forge_fusion_writes(t)
    \/ \E t \in Tasks, u \in Users : \E item \in Items, n \in 0..MaxAmount :
          item_recycle(t, u, item, n)
    \/ \E t \in Tasks : _confirm_item_recycle(t)
    \/ \E t \in Tasks, u \in Users : \E b \in {"confirm", "cancel"} : PressButton(t, u, b)
    \/ \E t \in Tasks : ViewTimeout(t)

SpecForge == Init /\ [][NextForge]_vars

\* ---------------------------------------------------------------------------
\* The burn paths by themselves, on a card of every rarity, condition and age.

\* the specifications that go through a table of inputs run one command at a time
OneTask == {"t1"}

InitBurn ==
    /\ \E r \in Rarities, c \in Conditions, d \in {0, 10, 60, MaxDays}, s \in SpecialSamples :
         cards = ("a" :> [Card("u1", r, c, s, "X", FALSE) EXCEPT !.days = d])
              @@ ("b" :> Card("u1", "common", "mint", "unknown", "X", FALSE))
              @@ ("c" :> Card("u2", "exotic", "mint", "unknown", "Y", FALSE))
    /\ users = [u \in Users |->
                  [silver |-> InitSilver, star |-> InitStar, gem |-> 0,
                   voucher |-> 0, backpack_level |-> 1]]
    /\ levels = [u \in Users |-> 5]
    /\ inv = [u \in Users |-> [it \in Items |-> 0]]
    /\ cooldown = [cmd \in GatedCommands |-> [u \in Users |-> FALSE]]
    /\ tasks = [t \in Tasks |-> [pc |-> "idle"]]
    /\ daily = Users
    /\ vote = Users
    /\ now = 0
    /\ bucket = from_cooldown

NextBurn ==
    \/ \E t \in OneTask, u \in Users : \E c \in CardIds : card_burn(t, u, "one", {c}, FALSE)
    \/ \E t \in OneTask, u \in Users : \E ids \in ManyIds, dup \in BOOLEAN :
          card_burn(t, u, "many", ids, dup)
    \/ \E t \in OneTask, u \in Users : card_burn(t, u, "all", {}, FALSE)
    \/ \E t \in OneTask : _confirm_single_card_burn(t)
    \/ \E t \in OneTask : _confirm_single_card_burn_writes(t)
    \/ \E t \in OneTask : _confirm_multiple_card_burn(t)
    \/ \E t \in OneTask : _confirm_all_card_burn(t)
    \/ \E t \in OneTask : _confirm_cards_burn_writes(t)
    \/ \E t \in OneTask, u \in Users : \E b \in {"confirm", "cancel"} : PressButton(t, u, b)
    \/ \E t \in OneTask : ViewTimeout(t)

SpecBurn == InitBurn /\ [][NextBurn]_vars

\* ---------------------------------------------------------------------------
\* The fusion by itself, on two cards of every rarity, condition and special
\* rarity, with the stars the dearest fusion costs.

InitFusion ==
    /\ \E r1 \in Rarities, c1, c2 \in Conditions, s1, s2 \in SpecialSamples :
       \E r2 \in {r1, "common"} :
         cards = ("a" :> Card("u1", r1, c1, s1, "X", FALSE))
              @@ ("b" :> Card("u1", r2, c2, s2, "X", FALSE))
    /\ users = [u \in Users |->
                  [silver |-> InitSilver, star |-> to_star("legendary") * 20, gem |-> 0,
                   voucher |-> 0, backpack_level |-> 1]]
    /\ levels = [u \in Users |-> 5]
    /\ inv = [u \in Users |-> [it \in Items |-> IF it = "fusion_crystal" THEN 1 ELSE 0]]
    /\ cooldown = [cmd \in GatedCommands |-> [u \in Users |-> FALSE]]
    /\ tasks = [t \in Tasks |-> [pc |-> "idle"]]
    /\ daily = Users
    /\ vote = Users
    /\ now = 0
    /\ bucket = from_cooldown

NextFusion ==
    \/ \E t \in OneTask, u \in Users : \E c1, c2 \in CardIds : forge_fusion(t, u, c1, c2)
    \/ \E t \in OneTask : _confirm_forge_fusion(t)
    \/ \E t \in OneTask : _confirm_forge_fusion_writes(t)
    \/ \E t \in OneTask, u \in Users : \E b \in {"confirm", "cancel"} : PressButton(t, u, b)
    \/ \E t \in OneTask : ViewTimeout(t)

SpecFusion == InitFusion /\ [][NextFusion]_vars

\* ---------------------------------------------------------------------------
\* Card generation and the card packs (source/cogs/card.py, source/entity.py).

\* the most cards one direct call of generate_card is asked for
MaxGenerated == 2

\* Item: the five card packs
CardPacks == {"rare_card_pack", "epic_card_pack", "mythic_card_pack",
              "legendary_card_pack", "exotic_card_pack"}

\* generate_card, pack mode: the table the condition is drawn from
PackConditions == {"pristine", "mint", "near_mint"}

\* Rarity.level
rarity_level(r) ==
    CASE r = "common" -> 1
      [] r = "uncommon" -> 2
      [] r = "rare" -> 3
      [] r = "epic" -> 4
      [] r = "mythic" -> 5
      [] r = "legendary" -> 6
      [] r = "exotic" -> 7
      [] r = "nightmare" -> 8
      [] r = "exclusive_icicle" -> 8

\* generate_card: the condition argument is honoured when the pack flag is off
card_condition_as_asked(condition, pack) ==
    IF condition = "None" THEN IF pack THEN PackConditions ELSE Conditions
    ELSE {condition}

\* generate_card: the conditions one generated card can come out with;
\* `condition or generate_condition(weight)`, overwritten in pack mode
card_condition(condition, pack) ==
    IF pack THEN PackConditions
    ELSE IF condition = "None" THEN Conditions ELSE {condition}

\* generate_card: `rarity or generate_rarity(weight)`
card_rarity(rarity) ==
    IF rarity = "None" THEN {"common", "uncommon", "rare", "epic", "mythic", "legendary"}
    ELSE {rarity}

\* generate_card: every list of cards a call can return; range(amount) is
\* empty for an amount below one
generate_card(rarity, condition, amount, pack) ==
    [1..(IF amount < 0 THEN 0 ELSE amount) ->
        [rarity : card_rarity(rarity), condition : card_condition(condition, pack)]]

\* _generate_leaked_card with the deduction left out
_generate_leaked_card_keeps(leak_rarity, leaked, deduct_from) ==
    IF leaked
    THEN {<<g, deduct_from>> : g \in generate_card(leak_rarity, "None", 1, TRUE)}
    ELSE {<<<< >>, deduct_from>>}

\* _generate_leaked_card: `leaked` is the roll random.random() * 100 < leak_chance;
\* the pairs <<leaked_cards, deduct_from>> it can return
_generate_leaked_card(leak_rarity, leaked, deduct_from) ==
    IF leaked
    THEN {<<g, deduct_from - 1>> : g \in generate_card(leak_rarity, "None", 1, TRUE)}
    ELSE {<<<< >>, deduct_from>>}

\* _generate_card_pack_contents: cards_list extended with the cards of each band
RECURSIVE _generate_card_pack_contents(_, _)
_generate_card_pack_contents(rarities_and_amounts, cards_list) ==
    IF rarities_and_amounts = << >> THEN {cards_list}
    ELSE UNION {_generate_card_pack_contents(Tail(rarities_and_amounts), cards_list \o g) :
                g \in generate_card(Head(rarities_and_amounts)[1], "None",
                                    Head(rarities_and_amounts)[2], TRUE)}

\* _use_*_card_pack: max_cards
max_cards(item) == IF item \in {"rare_card_pack", "epic_card_pack"} THEN 7 ELSE 5

\* _use_*_card_pack with a leak_rarity two tiers above the pack's
leak_rarity_two_up(item) ==
    CASE item = "rare_card_pack" -> "mythic"
      [] item = "epic_card_pack" -> "legendary"
      [] item = "mythic_card_pack" -> "exotic"
      [] item = "legendary_card_pack" -> "nightmare"
      [] item = "exotic_card_pack" -> "None"

\* _use_*_card_pack: the leak_rarity handed to _generate_leaked_card; the
\* exotic pack makes no such call
leak_rarity(item) ==
    CASE item = "rare_card_pack" -> "epic"
      [] item = "epic_card_pack" -> "mythic"
      [] item = "mythic_card_pack" -> "legendary"
      [] item = "legendary_card_pack" -> "exotic"
      [] item = "exotic_card_pack" -> "None"

\* _use_*_card_pack: the band counts the handler rolls, top band first
band_amounts(item) ==
    LET abs(x) == IF x < 0 THEN 0 - x ELSE x IN
    CASE item = "rare_card_pack" ->
           {<<<<"rare", rare>>, <<"uncommon", max_cards(item) - rare>>>> : rare \in 2..4}
      [] item = "epic_card_pack" ->
           UNION {{<<<<"epic", epic>>, <<"rare", rare>>,
                     <<"uncommon", max_cards(item) - (epic + rare)>>>> :
                   rare \in 0..(max_cards(item) - epic)} : epic \in 1..2}
      [] item = "mythic_card_pack" ->
           {<<<<"mythic", 1>>, <<"epic", epic>>,
              <<"rare", max_cards(item) - (1 + epic)>>>> : epic \in 1..2}
      [] item = "legendary_card_pack" ->
           {<<<<"legendary", 1>>, <<"mythic", mythic>>, <<"epic", abs(mythic - 1)>>,
              <<"rare", max_cards(item) - (1 + mythic + abs(mythic - 1))>>>> :
            mythic \in 0..1}
      [] item = "exotic_card_pack" ->
           UNION {UNION {{<<<<"exotic", exotic>>, <<"legendary", legendary>>,
                            <<"mythic", mythic>>,
                            <<"epic", max_cards(item) - (exotic + legendary + mythic)>>>> :
                          mythic \in 0..1} : legendary \in 0..2} : exotic \in 0..1}

\* ItemEntity.use -> _use_<pack>: the contents of one opened pack
use(t, u, item) ==
    /\ tasks[t].pc = "idle"
    /\ \E amounts \in band_amounts(item) :
       \E leaked \in (IF leak_rarity(item) = "None" THEN {FALSE} ELSE BOOLEAN) :
       \E lk \in _generate_leaked_card(leak_rarity(item), leaked, amounts[1][2]) :
         LET rarities_and_amounts == [amounts EXCEPT ![1] = <<amounts[1][1], lk[2]>>] IN
         \E cs \in _generate_card_pack_contents(rarities_and_amounts, lk[1]) :
            tasks' = [tasks EXCEPT ![t] =
                        [pc |-> "pack", cmd |-> "use", actor |-> u, kind |-> item,
                         p |-> [cards |-> cs,
                                rarities_and_amounts |-> rarities_and_amounts]]]
    /\ UNCHANGED <<storage, cooldown>>
    /\ UNCHANGED <<daily, vote, now, bucket>>

\* CardFactory.generate_card called on its own, with any arguments
call_generate_card(t, u, rarity, condition, amount, pack) ==
    /\ tasks[t].pc = "idle"
    /\ \E cs \in generate_card(rarity, condition, amount, pack) :
          tasks' = [tasks EXCEPT ![t] =
                      [pc |-> "generated", cmd |-> "generate_card", actor |-> u,
                       p |-> [cards |-> cs, rarity |-> rarity, condition |-> condition,
                              amount |-> amount, pack |-> pack]]]
    /\ UNCHANGED <<storage, cooldown>>
    /\ UNCHANGED <<daily, vote, now, bucket>>

NextPack ==
    \/ \E t \in OneTask, u \in Users : \E item \in CardPacks : use(t, u, item)
    \/ \E t \in OneTask, u \in Users :
       \E rarity \in Rarities \cup {"None"}, condition \in Conditions \cup {"None"},
          amount \in 0..MaxGenerated, pack \in BOOLEAN :
          call_generate_card(t, u, rarity, condition, amount, pack)

\* nobody has opened or generated anything yet
InitPack ==
    /\ cards = ("a" :> Card("u1", "common", "mint", "unknown", "X", FALSE))
    /\ users = [u \in Users |->
                  [silver |-> InitSilver, star |-> InitStar, gem |-> 0,
                   voucher |-> 0, backpack_level |-> 1]]
    /\ levels = [u \in Users |-> 5]
    /\ inv = [u \in Users |-> [it \in Items |-> 0]]
    /\ cooldown = [cmd \in GatedCommands |-> [u \in Users |-> FALSE]]
    /\ tasks = [t \in Tasks |-> [pc |-> "idle"]]
    /\ daily = Users
    /\ vote = Users
    /\ now = 0
    /\ bucket = from_cooldown

SpecPack == InitPack /\ [][NextPack]_vars

\* ---------------------------------------------------------------------------
\* The condition ladder by itself: CardFactory.upgrade and CardFactory.downgrade
\* applied, again and again, to cards of every condition.

InitLadder ==
    /\ \E c1, c2 \in Conditions :
         cards = ("a" :> Card("u1", "common", c1, "unknown", "X", FALSE))
              @@ ("b" :> Card("u2", "common", c2, "unknown", "Y", FALSE))
    /\ users = [u \in Users |->
                  [silver |-> InitSilver, star |-> InitStar, gem |-> 0,
                   voucher |-> 0, backpack_level |-> 1]]
    /\ levels = [u \in Users |-> 5]
    /\ inv = [u \in Users |-> [it \in Items |-> 0]]
    /\ cooldown = [cmd \in GatedCommands |-> [u \in Users |-> FALSE]]
    /\ tasks = [t \in Tasks |-> [pc |-> "idle"]]
    /\ daily = Users
    /\ vote = Users
    /\ now = 0
    /\ bucket = from_cooldown

\* new_condition = CardFactory.upgrade(card.condition); change_card_condition
apply_upgrade(t, id) ==
    /\ id \in DOMAIN cards
    /\ LET new_condition == upgrade(cards[id].condition) IN
       /\ cards' = change_card_condition(cards, id, new_condition)
       /\ tasks' = [tasks EXCEPT ![t] =
                      [pc |-> "ladder", cmd |-> "upgrade", card_id |-> id,
                       from |-> cards[id].condition, to |-> new_condition]]
    /\ UNCHANGED <<users, levels, inv, cooldown>>
    /\ UNCHANGED <<daily, vote, now, bucket>>

\* new_condition = CardFactory.downgrade(card.condition); change_card_condition
apply_downgrade(t, id) ==
    /\ id \in DOMAIN cards
    /\ LET new_condition == downgrade(cards[id].condition) IN
       /\ cards' = change_card_condition(cards, id, new_condition)
       /\ tasks' = [tasks EXCEPT ![t] =
                      [pc |-> "ladder", cmd |-> "downgrade", card_id |-> id,
                       from |-> cards[id].condition, to |-> new_condition]]
    /\ UNCHANGED <<users, levels, inv, cooldown>>
    /\ UNCHANGED <<daily, vote, now, bucket>>

\* NewUserWeight, BasicWeight and PremiumWeight: special_rarity, in hundredths
SpecialWeights ==
    [NewUserWeight |-> [unknown |-> 10000],
     BasicWeight |-> [unknown |-> 9995, shiny |-> 5],
     PremiumWeight |-> [unknown |-> 9980, shiny |-> 20]]

\* CardFactory.generate_special_rarity(member, weight): the weights handed to
\* random.choices and the SpecialRarity it returns; shiny_weight is
\* special_rarity.get(SpecialRarity.shiny, 0.01) * 2
generate_special_rarity(t, member, weight) ==
    LET table == SpecialWeights[weight]
        shiny_weight == (IF "shiny" \in DOMAIN table THEN table["shiny"] ELSE 1) * 2
        special_rarity == IF member # "None" /\ is_patreon(member)
                          THEN [table EXCEPT !["unknown"] = @ - shiny_weight]
                          ELSE table
    IN  /\ \E choice \in {sr \in DOMAIN special_rarity : special_rarity[sr] > 0} :
             tasks' = [tasks EXCEPT ![t] =
                         [pc |-> "special", cmd |-> "generate_special_rarity",
                          member |-> member, weight |-> weight,
                          special_rarity |-> special_rarity, result |-> choice]]
        /\ UNCHANGED <<storage, cooldown, daily, vote, now, bucket>>

NextLadder ==
    \/ \E t \in OneTask, id \in CardIds : apply_upgrade(t, id)
    \/ \E t \in OneTask, id \in CardIds : apply_downgrade(t, id)
    \/ \E t \in OneTask, member \in Users \cup {"None"}, weight \in DOMAIN SpecialWeights :
          generate_special_rarity(t, member, weight)

SpecLadder == InitLadder /\ [][NextLadder]_vars

\* ---------------------------------------------------------------------------
\* The shop by itself: users that can pay for every backpack level, at every
\* backpack level, buying in two commands at a time.

\* the silver a user of the shop starts with: the four upgrades cost 1550
ShopSilver == 1600

InitShop ==
    /\ cards = ("a" :> Card("u1", "common", "mint", "unknown", "X", FALSE))
    /\ \E l1, l2 \in 1..max_backpack_level :
         users = [u \in Users |->
                    [silver |-> ShopSilver, star |-> InitStar, gem |-> 0,
                     voucher |-> 0, backpack_level |-> IF u = "u1" THEN l1 ELSE l2]]
    /\ levels = [u \in Users |-> required_level]
    /\ inv = [u \in Users |-> [it \in Items |-> 0]]
    /\ cooldown = [cmd \in GatedCommands |-> [u \in Users |-> FALSE]]
    /\ tasks = [t \in Tasks |-> [pc |-> "idle"]]
    /\ daily = Users
    /\ vote = Users
    /\ now = 0
    /\ bucket = from_cooldown

NextShop ==
    \/ \E t \in Tasks, u \in Users : \E item \in Items, n \in 0..(MaxAmount + 1) :
          item_buy(t, u, item, n)
    \/ \E t \in Tasks : _confirm_item_buy(t)
    \/ \E t \in Tasks, u \in Users : \E b \in {"confirm", "cancel"} : PressButton(t, u, b)
    \/ \E t \in Tasks : ViewTimeout(t)

SpecShop == InitShop /\ [][NextShop]_vars

\* ---------------------------------------------------------------------------
\* Drops, grabs and pack openings of users whose backpack is nearly full
\* (source/cogs/card.py, source/cogs/item.py, source/entity.py).

\* the cards one backpack level holds
backpack_slots == 500

\* a drop, a grab or a pack opening and two more commands at the same time
BackpackTasks == Tasks \cup {"t3"}

\* the task that runs the drop command; the others grab and open packs
DropTasks == {"t1"}

\* the first user's backpack level and rows of the cards table: empty, at the
\* cap of level 1, and at five times the slots on level 5
InitBackpack ==
    /\ \E own \in {<<1, 0>>, <<1, backpack_slots>>,
                   <<max_backpack_level, max_backpack_level * backpack_slots>>} :
         /\ cards = [id \in {ToString(i) : i \in 1..own[2]} |->
                        Card("u1", "common", "mint", "unknown", "X", FALSE)]
         /\ users = [u \in Users |->
                       [silver |-> InitSilver, star |-> InitStar, gem |-> 0,
                        voucher |-> 0,
                        backpack_level |-> IF u = "u1" THEN own[1] ELSE 1]]
    /\ levels = [u \in Users |-> required_level]
    /\ inv = [u \in Users |-> [it \in Items \cup CardPacks \cup {"premium_drop"} |->
                  IF it = "mythic_card_pack" THEN (IF u = "u1" THEN 2 ELSE 1)
                  ELSE IF it = "premium_drop" /\ u = "u2" THEN 1 ELSE 0]]
    /\ cooldown = [cmd \in GatedCommands \cup {"drop", "grab"} |-> [u \in Users |-> FALSE]]
    /\ tasks = [t \in BackpackTasks |-> [pc |-> "idle"]]
    /\ daily = Users
    /\ vote = Users
    /\ now = 0
    /\ bucket = from_cooldown

\* the drops that are followed, each generated card as the drop view keeps it: a
\* common card, a rare card and a Troll
DropSamples ==
    LET DroppedCard(rarity, condition, character_name, card_id) ==
            [rarity |-> rarity, condition |-> condition, special_rarity |-> "unknown",
             character_name |-> character_name, card_id |-> card_id]
    IN {<<DroppedCard("common", "good", "X", "c"), DroppedCard("rare", "mint", "Z", "d"),
          DroppedCard("common", "poor", "Troll", "7R0115")>>}

\* the task ends here, with no view of its own left
EndsWith(t, result) == Reject(t, tasks[t].cmd, tasks[t].actor, tasks[t].kind, result)

\* CardCog.card_drop: cards_list is what generate_card(member, weight) returned
card_drop(t, u, cards_list) ==
    /\ tasks[t].pc = "idle"
    /\ [i \in 1..Len(cards_list) |->
          [rarity |-> cards_list[i].rarity, condition |-> cards_list[i].condition]]
         \in generate_card("None", "None", 3, FALSE)
    /\ \A i \in 1..Len(cards_list) :
          cards_list[i].character_name = "Troll" => cards_list[i].card_id = "7R0115"
    /\ UNCHANGED <<cards, users, levels>>
    /\ IF cooldown["drop"][u]
       THEN /\ tasks' = Reject(t, "drop", u, "drop", "on_cooldown")
            /\ UNCHANGED <<inv, cooldown>>
       ELSE /\ cooldown' = IF inv[u]["premium_drop"] = 0
                           THEN update_rate_limit(cooldown, "drop", u)
                           ELSE reset_command_cooldown(
                                    update_rate_limit(cooldown, "drop", u), "drop", u)
            /\ inv' = IF inv[u]["premium_drop"] = 0 THEN inv
                      ELSE remove_item(inv, u, "premium_drop", 1)
            /\ tasks' = [tasks EXCEPT ![t] =
                           [pc |-> "drop", cmd |-> "drop", actor |-> u,
                            kind |-> IF inv[u]["premium_drop"] = 0
                                     THEN "BasicWeight" ELSE "PremiumWeight",
                            p |-> [cards |-> cards_list], grabbed_cards |-> {}]]
    /\ UNCHANGED <<daily, vote, now, bucket>>

\* card_drop after view.wait(): the _CardDropView timed out
DropTimeout(t) ==
    /\ tasks[t].pc = "drop"
    /\ tasks' = EndsWith(t, "expired")
    /\ UNCHANGED <<storage, cooldown>>
    /\ UNCHANGED <<daily, vote, now, bucket>>

\* a _CardDropButton.callback that finds no card grabbed
already_grabbed_never(d, selected) == FALSE

\* _CardDropButton.callback: selected in self.grabbed_cards
already_grabbed(d, selected) == selected \in tasks[d].grabbed_cards

\* _CardDropView.interaction_check and _CardDropButton.callback up to the point
\* where the button is taken: user presses button `selected` of the drop of task d
_CardDropButton_callback(t, user, d, selected) ==
    /\ tasks[t].pc = "idle"
    /\ tasks[d].pc = "drop"
    /\ selected \in 1..Len(tasks[d].p.cards)
    /\ UNCHANGED storage
    /\ LET \* the button that was pressed is kept with the task
           Pressed(tk) == [tk EXCEPT ![t] = @ @@ [drop |-> d, selected |-> selected]]
       IN
       IF cooldown["grab"][user]
       THEN /\ tasks' = Pressed(Reject(t, "grab", user, "grab", "on_cooldown"))
            /\ UNCHANGED cooldown
       ELSE LET cd == update_rate_limit(cooldown, "grab", user)
                card_count == Cardinality(get_cards(user))
            IN  IF card_count >= users[user].backpack_level * backpack_slots
                THEN /\ tasks' = Pressed(Reject(t, "grab", user, "grab", "backpack_full"))
                     /\ cooldown' = cd
                ELSE IF already_grabbed(d, selected)
                THEN /\ tasks' = Pressed(Reject(t, "grab", user, "grab", "already_grabbed"))
                     /\ cooldown' = reset_command_cooldown(cd, "grab", user)
                ELSE /\ tasks' = [tasks EXCEPT
                                    ![d].grabbed_cards = @ \cup {selected},
                                    ![t] = [pc |-> "apply", cmd |-> "grab", actor |-> user,
                                            kind |-> "grab", drop |-> d, selected |-> selected,
                                            p |-> [card |-> tasks[d].p.cards[selected],
                                                   author |-> tasks[d].actor]]]
                     /\ cooldown' = cd
    /\ UNCHANGED <<daily, vote, now, bucket>>

\* _CardDropButton.callback from the Troll check on: the card is stored and paid
_CardDropButton_callback_writes(t) ==
    /\ IsApplying(t, "grab", "grab")
    /\ UNCHANGED <<levels, inv, cooldown>>
    /\ LET card == tasks[t].p.card
           user == tasks[t].actor
           Kept(tk) == [tk EXCEPT ![t] = @ @@ [drop |-> tasks[t].drop,
                                               selected |-> tasks[t].selected]]
       IN  IF card.character_name = "Troll"
           THEN /\ tasks' = Kept(EndsWith(t, "troll"))
                /\ UNCHANGED <<cards, users>>
           ELSE IF card.card_id \in DOMAIN cards
           THEN /\ tasks' = Kept(EndsWith(t, "insert_failed"))
                /\ UNCHANGED <<cards, users>>
           ELSE \E reward_silver \in {to_silver(card.rarity)[1] \div 3,
                                      to_silver(card.rarity)[2] \div 3} :
                  /\ cards' = add_card(cards, card.card_id,
                                  NewRow(user, card.rarity, card.condition,
                                         card.special_rarity, card.character_name))
                  /\ users' = set_balance(users, user, "silver", reward_silver)
                  /\ tasks' = Kept(EndsWith(t, "success"))
    /\ UNCHANGED <<daily, vote, now, bucket>>

\* ItemCog.item_use
item_use(t, u, item) ==
    /\ tasks[t].pc = "idle"
    /\ UNCHANGED <<storage, cooldown>>
    /\ IF inv[u][item] = 0
       THEN tasks' = Reject(t, "use", u, item, "not_in_inventory")
       ELSE tasks' = Propose(t, "use", u, item, [item |-> item, amount_to_use |-> 1],
                             Confirm(u))
    /\ UNCHANGED <<daily, vote, now, bucket>>

\* _CardPackView: claimed is None until Claim All is pressed
_CardPackView(author) ==
    [kind |-> "_CardPackView", author |-> author, value |-> "None", stopped |-> FALSE,
     has_timeout |-> TRUE, by |-> "nobody", denied |-> {}]

\* _confirm_item_use, ItemEntity.use, _use_<pack> and _handle_card_pack up to
\* view.wait()
_confirm_item_use(t) ==
    /\ Waiting(t)
    /\ tasks[t].cmd = "use"
    /\ wait_for_confirmation(t,
          LET u == tasks[t].actor
              item == tasks[t].p.item
              amount_to_use == tasks[t].p.amount_to_use
              backpack_level == users[u].backpack_level
          IN  IF inv[u][item] = 0
              THEN /\ tasks' = DoneInCallback(t, "not_in_inventory")
                   /\ UNCHANGED <<storage, cooldown>>
              ELSE IF inv[u][item] < amount_to_use
              THEN /\ tasks' = DoneInCallback(t, "not_enough_items")
                   /\ UNCHANGED <<storage, cooldown>>
              ELSE IF get_cards(u) = {}
              THEN /\ tasks' = DoneInCallback(t, "assertion_error")
                   /\ UNCHANGED <<storage, cooldown>>
              ELSE IF /\ item \in CardPacks
                      /\ backpack_level < max_backpack_level
                      /\ Cardinality(get_cards(u)) > backpack_level * backpack_slots
              THEN /\ tasks' = DoneInCallback(t, "backpack_full")
                   /\ UNCHANGED <<storage, cooldown>>
              ELSE /\ \E kept \in (IF has_minimum_patreon_role(u, 2)
                                   THEN BOOLEAN ELSE {FALSE}) :
                         inv' = IF kept THEN inv ELSE remove_item(inv, u, item, amount_to_use)
                   /\ \E amounts \in band_amounts(item) :
                      \E leaked \in (IF leak_rarity(item) = "None" THEN {FALSE} ELSE BOOLEAN) :
                      \E lk \in _generate_leaked_card(leak_rarity(item), leaked, amounts[1][2]) :
                        LET rarities_and_amounts ==
                                [amounts EXCEPT ![1] = <<amounts[1][1], lk[2]>>] IN
                        \E cs \in {c \in _generate_card_pack_contents(rarities_and_amounts, lk[1]) :
                                     \A i \in 1..Len(c) : c[i].condition = "mint"} :
                           tasks' = [tasks EXCEPT ![t] =
                                       [pc |-> "pack", cmd |-> "use", actor |-> u,
                                        kind |-> item,
                                        p |-> [cards |-> cs,
                                               rarities_and_amounts |-> rarities_and_amounts],
                                        view |-> _CardPackView(u), runs |-> tasks[t].runs + 1,
                                        only_locked |-> FALSE]]
                   /\ UNCHANGED <<cards, users, levels, cooldown>>)
    /\ UNCHANGED <<daily, vote, now, bucket>>

\* _CardPackView.claim_all, behind the view's interaction_check
claim_all(t, user) ==
    /\ tasks[t].pc = "pack"
    /\ ~tasks[t].view.stopped
    /\ interaction_check(tasks[t].view, user)
    /\ tasks' = [tasks EXCEPT ![t].view = confirm(@, user)]
    /\ UNCHANGED <<storage, cooldown>>
    /\ UNCHANGED <<daily, vote, now, bucket>>

\* the _CardPackView times out
PackTimeout(t) ==
    /\ tasks[t].pc = "pack"
    /\ ~tasks[t].view.stopped
    /\ tasks' = [tasks EXCEPT ![t].view.stopped = TRUE]
    /\ UNCHANGED <<storage, cooldown>>
    /\ UNCHANGED <<daily, vote, now, bucket>>

\* _handle_card_pack: add_card for each card of the pack
AddPack(tbl, owner, t, cards_list) ==
    LET PackCardId(i) == t \o "-" \o ToString(i)
        new == {PackCardId(i) : i \in 1..Len(cards_list)} \ DOMAIN tbl IN
    [id \in DOMAIN tbl \cup new |->
        IF id \in DOMAIN tbl THEN tbl[id]
        ELSE LET i == CHOOSE j \in 1..Len(cards_list) : PackCardId(j) = id IN
             NewRow(owner, cards_list[i].rarity, cards_list[i].condition, "unknown",
                    CHOOSE ch \in Roster(cards_list[i].rarity) : TRUE)]

\* _handle_card_pack after view.wait()
_handle_card_pack(t) ==
    /\ tasks[t].pc = "pack"
    /\ tasks[t].view.stopped
    /\ UNCHANGED <<users, levels, inv, cooldown>>
    /\ IF tasks[t].view.value = "None"
       THEN /\ tasks' = Done(t, "took_too_long")
            /\ UNCHANGED cards
       ELSE /\ cards' = AddPack(cards, tasks[t].actor, t, tasks[t].p.cards)
            /\ tasks' = Done(t, "success")
    /\ UNCHANGED <<daily, vote, now, bucket>>

NextBackpack ==
    \/ \E t \in DropTasks, u \in Users : \E cs \in DropSamples : card_drop(t, u, cs)
    \/ \E t \in DropTasks : DropTimeout(t)
    \/ \E t \in BackpackTasks \ DropTasks, u \in Users, d \in DropTasks : \E i \in 1..3 :
          _CardDropButton_callback(t, u, d, i)
    \/ \E t \in BackpackTasks : _CardDropButton_callback_writes(t)
    \/ \E t \in BackpackTasks \ DropTasks, u \in Users : \E item \in CardPacks :
          item_use(t, u, item)
    \/ \E t \in BackpackTasks : _confirm_item_use(t)
    \/ \E t \in BackpackTasks, u \in Users : claim_all(t, u)
    \/ \E t \in BackpackTasks : PackTimeout(t)
    \/ \E t \in BackpackTasks : _handle_card_pack(t)
    \/ \E t \in BackpackTasks, u \in Users : \E b \in {"confirm", "cancel"} :
          PressButton(t, u, b)
    \/ \E t \in BackpackTasks : ViewTimeout(t)
    \/ \E u \in Users : CooldownElapses("grab", u)

SpecBackpack == InitBackpack /\ [][NextBackpack]_vars

\* ---------------------------------------------------------------------------
\* Card sleeves (source/cogs/card.py) next to trades.

InitSleeve ==
    /\ \E s1, s2 \in BOOLEAN :
         cards = ("a" :> [Card("u1", "common", "mint", "unknown", "X", FALSE)
                             EXCEPT !.has_sleeve = s1])
              @@ ("b" :> [Card("u2", "common", "good", "unknown", "Y", FALSE)
                             EXCEPT !.has_sleeve = s2])
    /\ users = [u \in Users |->
                  [silver |-> InitSilver, star |-> InitStar, gem |-> 0,
                   voucher |-> 0, backpack_level |-> 1]]
    /\ levels \in [Users -> {required_level - 1, required_level}]
    /\ inv = [u \in Users |-> [it \in Items \cup {"card_sleeve"} |->
                  IF it = "card_sleeve" THEN Cardinality(Tasks) ELSE 0]]
    /\ cooldown = [cmd \in GatedCommands |-> [u \in Users |-> FALSE]]
    /\ tasks = [t \in Tasks |-> [pc |-> "idle"]]
    /\ daily = Users
    /\ vote = Users
    /\ now = 0
    /\ bucket = from_cooldown

\* _handle_card_sleeve, called by the sleeve add and sleeve remove commands
_handle_card_sleeve(t, u, option, card_id) ==
    /\ tasks[t].pc = "idle"
    /\ UNCHANGED <<storage, cooldown>>
    /\ IF card_id \notin DOMAIN cards
       THEN tasks' = Reject(t, "sleeve", u, option, "not_found")
       ELSE IF option = "add" /\ cards[card_id].has_sleeve
       THEN tasks' = Reject(t, "sleeve", u, option, "already_has_sleeve")
       ELSE IF option = "remove" /\ ~cards[card_id].has_sleeve
       THEN tasks' = Reject(t, "sleeve", u, option, "has_no_sleeve")
       ELSE IF cards[card_id].owner # u
       THEN tasks' = Reject(t, "sleeve", u, option, "not_owner")
       ELSE tasks' = Propose(t, "sleeve", u, option,
                             [is_option_add |-> option = "add", card_id |-> card_id],
                             Confirm(u))
    /\ UNCHANGED <<daily, vote, now, bucket>>

\* _confirm_card_sleeve
_confirm_card_sleeve(t) ==
    /\ Waiting(t)
    /\ tasks[t].cmd = "sleeve"
    /\ wait_for_confirmation(t,
          LET u == tasks[t].actor
              p == tasks[t].p
          IN  IF p.is_option_add /\ inv[u]["card_sleeve"] = 0
              THEN /\ tasks' = DoneInCallback(t, "not_in_inventory")
                   /\ UNCHANGED <<storage, cooldown>>
              ELSE /\ inv' = IF p.is_option_add
                             THEN remove_item(inv, u, "card_sleeve", 1)
                             ELSE add_item(inv, u, "card_sleeve", 1)
                   /\ cards' = invert_has_sleeve(cards, p.card_id)
                   /\ tasks' = DoneInCallback(t, "success")
                   /\ UNCHANGED <<users, levels, cooldown>>)
    /\ UNCHANGED <<daily, vote, now, bucket>>

NextSleeve ==
    \/ \E t \in Tasks, u \in Users : \E option \in {"add", "remove"}, c \in CardIds :
          _handle_card_sleeve(t, u, option, c)
    \/ \E t \in Tasks : _confirm_card_sleeve(t)
    \/ \E t \in Tasks, u \in Users, user \in Users : \E c1, c2 \in CardIds :
          trade_card(t, u, user, c1, c2)
    \/ \E t \in Tasks : trade_card_checks(t)
    \/ \E t \in Tasks : trade_card_writes(t)
    \/ \E t \in Tasks : trade_card_swap(t)
    \/ \E t \in Tasks, u \in Users : \E b \in {"confirm", "cancel"} : PressButton(t, u, b)
    \/ \E t \in Tasks : ViewTimeout(t)

SpecSleeve == InitSleeve /\ [][NextSleeve]_vars

\* ---------------------------------------------------------------------------
\* Registration (source/utils/psql.py, User.register), from empty tables.

InitRegister ==
    /\ cards = [x \in {} |-> 0]
    /\ users = [x \in {} |-> 0]
    /\ levels = [x \in {} |-> 0]
    /\ daily = {}
    /\ vote = {}
    /\ now = 0
    /\ bucket = from_cooldown
    /\ inv = [u \in Users |-> [it \in Items |-> 0]]
    /\ cooldown = [cmd \in GatedCommands |-> [u \in Users |-> FALSE]]
    /\ tasks = [t \in Tasks |-> [pc |-> "idle"]]

\* User.register: user_table = await self.get_table()
register(t, u) ==
    /\ tasks[t].pc = "idle"
    /\ tasks' = [tasks EXCEPT ![t] =
                   IF u \in DOMAIN users
                   THEN [pc |-> "done", cmd |-> "register", actor |-> u,
                         kind |-> "register", result |-> "returned",
                         user_id |-> users[u].id]
                   ELSE [pc |-> "insert_users", cmd |-> "register", actor |-> u,
                         kind |-> "register", result |-> "None", user_id |-> 0]]
    /\ UNCHANGED <<storage, cooldown, daily, vote, now, bucket>>

\* INSERT INTO users (user_id, registered_at) ... RETURNING id; a second row for
\* the same user_id is refused by the table
register_insert_users(t) ==
    /\ tasks[t].pc = "insert_users"
    /\ LET u == tasks[t].actor
           id == Cardinality(DOMAIN users) + 1
       IN  IF u \in DOMAIN users
           THEN /\ tasks' = [tasks EXCEPT ![t].pc = "done", ![t].result = "unique_violation"]
                /\ UNCHANGED users
           ELSE /\ users' = [x \in DOMAIN users \cup {u} |->
                               IF x = u
                               THEN [id |-> id, silver |-> 0, star |-> 0, gem |-> 0,
                                     voucher |-> 0, backpack_level |-> 1]
                               ELSE users[x]]
                /\ tasks' = [tasks EXCEPT ![t].pc = "insert_levels", ![t].user_id = id]
    /\ UNCHANGED <<cards, levels, inv, cooldown, daily, vote, now, bucket>>

\* the three inserts that follow, one statement at a time:
\* INSERT INTO levels (user_id); INSERT INTO daily (user_id, reset_at);
\* INSERT INTO vote (user_id); return user_id
register_insert_dependent(t) ==
    LET u == tasks[t].actor IN
    \/ /\ tasks[t].pc = "insert_levels"
       /\ levels' = [x \in DOMAIN levels \cup {u} |-> IF x = u THEN 1 ELSE levels[x]]
       /\ tasks' = [tasks EXCEPT ![t].pc = "insert_daily"]
       /\ UNCHANGED <<cards, users, inv, cooldown, daily, vote, now, bucket>>
    \/ /\ tasks[t].pc = "insert_daily"
       /\ daily' = daily \cup {u}
       /\ tasks' = [tasks EXCEPT ![t].pc = "insert_vote"]
       /\ UNCHANGED <<storage, cooldown, vote, now, bucket>>
    \/ /\ tasks[t].pc = "insert_vote"
       /\ vote' = vote \cup {u}
       /\ tasks' = [tasks EXCEPT ![t].pc = "done", ![t].result = "returned"]
       /\ UNCHANGED <<storage, cooldown, daily, now, bucket>>

NextRegister ==
    \/ \E t \in Tasks, u \in Users : register(t, u)
    \/ \E t \in Tasks : register_insert_users(t)
    \/ \E t \in Tasks : register_insert_dependent(t)

SpecRegister == InitRegister /\ [][NextRegister]_vars

\* ---------------------------------------------------------------------------
\* Cooldown gating (source/utils/cooldown.py, resettable_cooldown), with the
\* clock and the buckets of the gated commands.

\* the instants that are followed: around the start and the end of each window
TimeSamples == {0, 1, 14, 15, 16, 59, 60, 61}

InitCooldown ==
    /\ cards = ("a" :> Card("u1", "common", "mint", "unknown", "X", FALSE))
    /\ users = [u \in Users |->
                  [silver |-> InitSilver, star |-> InitStar, gem |-> 0,
                   voucher |-> 0, backpack_level |-> 1]]
    /\ levels = [u \in Users |-> required_level]
    /\ inv = [u \in Users |-> [it \in Items |-> 0]]
    /\ cooldown = [cmd \in GatedCommands |-> [u \in Users |-> FALSE]]
    /\ tasks = [t \in Tasks |-> [pc |-> "idle"]]
    /\ daily = Users
    /\ vote = Users
    /\ now = 0
    /\ bucket = from_cooldown

\* time goes by
Tick ==
    /\ \E n \in TimeSamples : n > now /\ now' = n
    /\ UNCHANGED <<storage, cooldown, tasks, daily, vote, bucket>>

\* commands.Cooldown.update_rate_limit(current) as the wrapper calls it: the
\* bucket it leaves and the retry_after it returns (0 where it returns None,
\* which the wrapper's `if retry_after and ...` treats alike)
Cooldown_update_rate_limit(b, rate, window_per, current) ==
    LET tokens == IF current > b.window + window_per THEN rate
                  ELSE IF b.tokens < 0 THEN 0 ELSE b.tokens
        window == IF tokens = rate THEN current ELSE b.window
    IN  [bucket |-> [tokens |-> tokens - 1, window |-> window],
         retry_after |-> IF tokens - 1 < 0 THEN window_per - (current - window) ELSE 0]

\* resettable_cooldown.wrapper: the check of an invocation of cmd by u
wrapper(t, u, cmd) ==
    /\ tasks[t].pc = "idle"
    /\ LET r == Cooldown_update_rate_limit(bucket[cmd][u], 1, per[cmd], now) IN
       /\ bucket' = [bucket EXCEPT ![cmd][u] = r.bucket]
       /\ tasks' = [tasks EXCEPT ![t] =
                      [pc |-> IF r.retry_after > 1 THEN "done" ELSE "running",
                       cmd |-> cmd, actor |-> u, kind |-> "wrapper",
                       result |-> IF r.retry_after > 1 THEN "on_cooldown" ELSE "passed",
                       at |-> now, reset_at |-> -1]]
    /\ UNCHANGED <<storage, cooldown, daily, vote, now>>

\* reset_command_cooldown(interaction) in the command that passed: bucket.reset()
bucket_reset(t) ==
    /\ tasks[t].pc = "running"
    /\ bucket' = [bucket EXCEPT ![tasks[t].cmd][tasks[t].actor].tokens = 1]
    /\ tasks' = [tasks EXCEPT ![t].pc = "done", ![t].reset_at = now]
    /\ UNCHANGED <<storage, cooldown, daily, vote, now>>

NextCooldown ==
    \/ Tick
    \/ \E t \in Tasks, u \in Users, cmd \in DOMAIN per : wrapper(t, u, cmd)
    \/ \E t \in Tasks : bucket_reset(t)

SpecCooldown == InitCooldown /\ [][NextCooldown]_vars

(***************************************************************************)
(* Properties.                                                             *)
(***************************************************************************)
\* the callback of task t's view is about to run: the view stopped on an accept
CallbackRuns(t) ==
    /\ Waiting(t)
    /\ tasks[t].view.stopped
    /\ tasks[t].view.value = "True"
    /\ tasks'[t] # tasks[t]

\* C1: when the final confirmation of a craft is accepted and a required card, a
\* required item or the star cost is not there any more, the craft is rejected
\* and nothing is consumed.
C1_CraftRechecksEveryRequirement ==
    [][\A t \in Tasks :
         (/\ IsWaiting(t, "craft", "final")
          /\ CallbackRuns(t)
          /\ \/ MissingCards(tasks[t].actor)
             \/ MissingItems(tasks[t].actor)
             \/ users[tasks[t].actor].star < tasks[t].p.star_cost)
         => /\ tasks'[t].pc = "done"
            /\ tasks'[t].result # "success"
            /\ storage' = storage]_vars

\* C2: no step deletes a card whose locked flag is set, whenever the flag was set.
C2_LockedCardsAreNotDeleted ==
    [][\A c \in DOMAIN cards : cards[c].locked => c \in DOMAIN cards']_vars

\* C3: a burn of locked cards only (one locked card, a list of locked cards, all
\* cards of a user who has locked every one) ends with storage untouched and the
\* actor's burn cooldown reset, whatever the actor answers to a prompt.
C3_BurnOfLockedCardsFailsAndResets ==
    [][\A t \in Tasks :
         (/\ tasks[t].pc # "done"
          /\ tasks'[t].pc = "done"
          /\ tasks'[t].cmd = "burn"
          /\ tasks'[t].only_locked)
         => /\ storage' = storage
            /\ tasks'[t].result # "success"
            /\ ~cooldown'["burn"][tasks'[t].actor]]_vars

\* C4: the writes of a confirmed burn, fusion or craft delete only cards that
\* the actor owns when they are deleted.
C4_CommitDeletesOnlyTheActorsCards ==
    [][\A t \in Tasks :
         (/\ tasks[t].pc = "apply"
          /\ tasks[t].cmd \in {"burn", "fusion", "craft"}
          /\ tasks'[t].pc = "done")
         => \A c \in DOMAIN cards \ DOMAIN cards' : cards[c].owner = tasks[t].actor]_vars

\* C5: no balance of any user is ever negative.
C5_BalancesAreNeverNegative ==
    \A u \in Users : \A currency \in {"silver", "star", "gem", "voucher"} : users[u][currency] >= 0

\* C6: a press by anybody but the view's author runs no button callback: the
\* view keeps its value and stays open, nothing is written; and whenever a view
\* takes a value, it is its author who pressed.
C6_OnlyTheAuthorActs ==
    [][\A t \in Tasks :
         (Waiting(t) /\ ~tasks[t].view.stopped /\ tasks'[t] # tasks[t])
         => /\ tasks'[t].view.value # "None"
               => /\ tasks'[t].view.by = tasks[t].view.author
                  /\ tasks'[t].view.denied = tasks[t].view.denied
            /\ tasks'[t].view.denied # tasks[t].view.denied
               => /\ tasks[t].view.author \notin tasks'[t].view.denied
                  /\ tasks'[t].view.value = "None"
                  /\ ~tasks'[t].view.stopped
                  /\ tasks'[t].pc = "wait"
                  /\ storage' = storage
                  /\ cooldown' = cooldown]_vars

\* a view of each class has refused somebody and is still open with no value
C6_RefusedAndStillPending ==
    \E t1, t2 \in Tasks :
        /\ Waiting(t1) /\ Waiting(t2)
        /\ tasks[t1].view.kind = "Confirm"
        /\ tasks[t2].view.kind = "EmbedPaginatorWithConfirm"
        /\ \A t \in {t1, t2} :
              /\ tasks[t].view.denied # {}
              /\ tasks[t].view.value = "None"
              /\ ~tasks[t].view.stopped

\* the value task t's view has or ended with
ValueOf(t) == IF tasks[t].pc = "done" THEN tasks[t].value ELSE tasks[t].view.value

\* the callback of a view has run at most once, and only on an accept of its author
RunsOnlyOnAccept ==
    \A t \in Tasks :
        (tasks[t].pc \in {"wait", "apply", "done"} /\ tasks[t].cmd # "lock")
        => /\ tasks[t].runs <= 1
           /\ tasks[t].runs = 1 => ValueOf(t) = "True"
           /\ (tasks[t].pc # "done" /\ ValueOf(t) = "True")
              => tasks[t].view.by = tasks[t].view.author

\* C7: the callback of a session runs at most once and only after its author
\* accepted; a session that was declined or expired runs none, and storage is
\* written by no task but one whose view was accepted (or a lock, which has no view).
C7_CallbackOnlyAfterAccept ==
    [][/\ RunsOnlyOnAccept'
       /\ storage' # storage
          => \E t \in Tasks :
                /\ tasks'[t] # tasks[t]
                /\ tasks[t].pc \in {"wait", "apply", "swap"}
                /\ \/ tasks[t].cmd = "lock"
                   \/ /\ tasks[t].view.value = "True"
                      /\ tasks[t].view.by = tasks[t].view.author
                      /\ tasks'[t].pc \in {"done", "swap"}
                      /\ tasks'[t].runs = 1
       /\ \A t \in Tasks :
             (Waiting(t) /\ tasks[t].view.stopped /\ tasks[t].view.value # "True"
              /\ tasks'[t] # tasks[t])
             => /\ tasks'[t].pc = "done"
                /\ tasks'[t].runs = 0
                /\ storage' = storage]_vars

\* one session was accepted and its callback ran once; another was declined
\* and ran none
C7_AcceptedAndDeclined ==
    \E t1, t2 \in Tasks :
        /\ tasks[t1].pc = "done" /\ tasks[t1].value = "True"
        /\ tasks[t1].runs = 1 /\ tasks[t1].result = "success"
        /\ tasks[t2].pc = "done" /\ tasks[t2].value = "False"
        /\ tasks[t2].runs = 0 /\ tasks[t2].result = "canceled"

\* C8: when a session expires, the bucket of its actor and command, if the
\* command has one, is reset and no other bucket changes; when it is declined,
\* no bucket changes.
C8_ExpiryResetsOnlyItsBucket ==
    [][\A t \in Tasks :
         (Waiting(t) /\ tasks'[t].pc = "done")
         => /\ tasks'[t].result = "expired"
               => cooldown' = [cmd \in GatedCommands |-> [u \in Users |->
                                 IF cmd = tasks[t].cmd /\ u = tasks[t].actor
                                 THEN FALSE ELSE cooldown[cmd][u]]]
            /\ tasks'[t].result = "canceled" => cooldown' = cooldown]_vars

\* an expired burn whose actor is off cooldown next to a declined burn whose
\* actor is still on it
C8_ExpiredOffDeclinedOn ==
    \E t1, t2 \in Tasks :
        /\ tasks[t1].pc = "done" /\ tasks[t1].result = "expired"
        /\ tasks[t1].cmd = "burn" /\ ~cooldown["burn"][tasks[t1].actor]
        /\ tasks[t2].pc = "done" /\ tasks[t2].result = "canceled"
        /\ tasks[t2].cmd = "burn" /\ cooldown["burn"][tasks[t2].actor]

\* C9: every task that waits on a view ends, even if nobody ever presses.
C9_EverySessionEnds ==
    \A t \in Tasks : Waiting(t) ~> (tasks[t].pc = "done")

\* C10: a confirmed multi-card burn is rejected, with nothing credited or deleted,
\* when a card its reward was computed from is gone; when it credits, every such
\* card is there to be deleted.
C10_MultiBurnCommitsWhole ==
    [][\A t \in Tasks :
         /\ (/\ IsWaiting(t, "burn", "many")
             /\ CallbackRuns(t)
             /\ ~(tasks[t].p.valid_card_ids \subseteq DOMAIN cards))
            => /\ tasks'[t].pc = "done"
               /\ tasks'[t].result # "success"
               /\ storage' = storage
         /\ (IsApplying(t, "burn", "many") /\ tasks'[t].pc = "done")
            => tasks[t].p.valid_card_ids \subseteq DOMAIN cards]_vars

\* C11: the writes of a confirmed fusion either deduct the star cost, delete both
\* input cards and insert the new card, or leave the star balance and the cards
\* as they were.
C11_FusionIsAllOrNothing ==
    [][\A t \in Tasks :
         (IsApplying(t, "fusion", "fusion") /\ tasks'[t].pc = "done")
         => \/ /\ users' = users
               /\ cards' = cards
            \/ /\ tasks'[t].result = "success"
               /\ users'[tasks[t].actor].star
                     = users[tasks[t].actor].star - tasks[t].p.star_cost
               /\ tasks[t].p.first_card_id \notin DOMAIN cards' \ {tasks[t].p.card_id}
               /\ tasks[t].p.second_card_id \notin DOMAIN cards' \ {tasks[t].p.card_id}
               /\ tasks[t].p.card_id \in DOMAIN cards'
               /\ cards'[tasks[t].p.card_id] = tasks[t].p.row]_vars

\* the rarities that are too valuable to burn
TooValuable == {"exotic", "nightmare", "exclusive_icicle"}

\* C12: no step of a burn deletes or changes a card of a too-valuable rarity, no
\* single-card burn is proposed for one, and the single-card burn that is
\* rejected as too valuable leaves storage alone and the actor's burn cooldown
\* reset.
C12_ValuableCardsAreNotBurned ==
    [][/\ \A c \in DOMAIN cards :
             cards[c].rarity \in TooValuable
             => c \in DOMAIN cards' /\ cards'[c] = cards[c]
       /\ \A t \in Tasks :
             (tasks[t].pc = "idle" /\ tasks'[t].pc # "idle" /\ tasks'[t].kind = "one")
             => /\ tasks'[t].pc = "wait"
                   => cards[tasks'[t].p.card_id].rarity \notin TooValuable
                /\ (tasks'[t].pc = "done" /\ tasks'[t].result = "too_valuable")
                   => /\ storage' = storage
                      /\ ~cooldown'["burn"][tasks'[t].actor]]_vars

\* a burn-all went through and took the common card, not the too-valuable one
C12_BurnAllSparedTheValuable ==
    \E t \in Tasks :
        /\ tasks[t].pc = "done" /\ tasks[t].kind = "all" /\ tasks[t].result = "success"
        /\ "b" \notin DOMAIN cards
        /\ "a" \in DOMAIN cards /\ cards["a"].rarity \in TooValuable

\* C13: the reward proposed for a card with sampled base silver b, star yield s
\* and age d days is b + min(d,60)*floor(b/4) silver and s + min(d,60)*floor(s/4)
\* star, for a b in the rarity's range; b = 25, d = 10 gives 85 silver.
C13_BurnRewardWithAgeBonus ==
    /\ BurnSilver(25, 10) = 85
    /\ \A t \in Tasks :
          (IsWaiting(t, "burn", "one") /\ tasks[t].p.card_id \in DOMAIN cards)
          => LET card == cards[tasks[t].p.card_id]
                 d == IF card.days > 60 THEN 60 ELSE card.days
                 s == condition_to_star(card.condition)
             IN  /\ \E b \in to_silver(card.rarity)[1] .. to_silver(card.rarity)[2] :
                        tasks[t].p.total_silver = b + d * (b \div 4)
                 /\ tasks[t].p.total_star = s + d * (s \div 4)

\* a reward is proposed for a legendary card past the cap of 60 days
C13_RewardPastTheCap ==
    \E t \in Tasks :
        /\ IsWaiting(t, "burn", "one")
        /\ tasks[t].p.card_id \in DOMAIN cards
        /\ cards[tasks[t].p.card_id].days = MaxDays
        /\ cards[tasks[t].p.card_id].rarity = "legendary"

\* the two cards of task t's fusion are in storage
InputsExist(t) ==
    /\ tasks[t].p.first_card_id \in DOMAIN cards
    /\ tasks[t].p.second_card_id \in DOMAIN cards

\* the conditions from the lowest to the highest
Ladder == <<"damaged", "poor", "good", "near_mint", "mint", "pristine">>
Rung(c) == CHOOSE i \in 1..Len(Ladder) : Ladder[i] = c

\* C14: the condition of the card a fusion proposes is the inputs' condition when
\* they agree and otherwise one rung below the higher of the two; its rarity is
\* the rarity of both inputs.
C14_FusionResultCondition ==
    \A t \in Tasks :
        (IsWaiting(t, "fusion", "fusion") /\ InputsExist(t))
        => LET card1 == cards[tasks[t].p.first_card_id]
               card2 == cards[tasks[t].p.second_card_id]
               top == IF Rung(card1.condition) >= Rung(card2.condition)
                      THEN Rung(card1.condition) ELSE Rung(card2.condition)
           IN  /\ tasks[t].p.row.condition =
                     IF card1.condition = card2.condition THEN card1.condition
                     ELSE Ladder[top - 1]
               /\ tasks[t].p.row.rarity = card1.rarity
               /\ tasks[t].p.row.rarity = card2.rarity

\* a fusion of a near mint and a mint card proposes a near mint card
C14_NearMintAndMint ==
    \E t \in Tasks :
        /\ IsWaiting(t, "fusion", "fusion") /\ InputsExist(t)
        /\ {cards[tasks[t].p.first_card_id].condition,
            cards[tasks[t].p.second_card_id].condition} = {"near_mint", "mint"}
        /\ tasks[t].p.row.condition = "near_mint"

\* C15: a fusion is proposed only for two cards of the same special rarity.
C15_FusionShinyRule ==
    \A t \in Tasks :
        (IsWaiting(t, "fusion", "fusion") /\ InputsExist(t))
        => cards[tasks[t].p.first_card_id].special_rarity
              = cards[tasks[t].p.second_card_id].special_rarity

\* the star value of the rarities that can be fused
StarValue(r) ==
    CASE r = "common" -> 3 [] r = "uncommon" -> 12 [] r = "rare" -> 33
      [] r = "epic" -> 72 [] r = "mythic" -> 138 [] r = "legendary" -> 228

\* C16: the writes of a confirmed fusion of two cards that are both shiny take
\* 20 times the rarity's star value, and of two cards that are both not shiny
\* 2.5 times the star value rounded to an integer.
C16_FusionStarCost ==
    [][\A t \in Tasks :
         (/\ IsApplying(t, "fusion", "fusion") /\ tasks'[t].pc = "done"
          /\ InputsExist(t)
          /\ cards[tasks[t].p.first_card_id].special_rarity
                = cards[tasks[t].p.second_card_id].special_rarity)
         => LET v == StarValue(cards[tasks[t].p.first_card_id].rarity)
                paid == users[tasks[t].actor].star - users'[tasks[t].actor].star
            IN  IF cards[tasks[t].p.first_card_id].special_rarity = "shiny"
                THEN paid = 20 * v
                ELSE 2 * paid - 5 * v \in {-1, 0, 1}]_vars

\* a fusion of two shiny legendary cards went through and took every star there was
C16_DearestFusionPaid ==
    \E t \in Tasks :
        /\ tasks[t].pc = "done" /\ tasks[t].cmd = "fusion" /\ tasks[t].result = "success"
        /\ users[tasks[t].actor].star = 0

\* C17: when the actor accepts a fusion and holds no fusion crystal any more,
\* the fusion is rejected and nothing is written.
C17_FusionNeedsItsCatalystAtCommit ==
    [][\A t \in Tasks :
         (/\ IsWaiting(t, "fusion", "fusion")
          /\ CallbackRuns(t)
          /\ inv[tasks[t].actor]["fusion_crystal"] < 1)
         => /\ tasks'[t].pc = "done"
            /\ tasks'[t].result # "success"
            /\ storage' = storage]_vars


\* the cards of a finished generation: an opened pack or a direct pack-mode call
PackCards(t) ==
    IF tasks[t].pc = "pack" \/ (tasks[t].pc = "generated" /\ tasks[t].p.pack)
    THEN {tasks[t].p.cards[i] : i \in 1..Len(tasks[t].p.cards)}
    ELSE {}

\* C18: every card generated in pack mode, by an opened pack or by a call with
\* the pack flag set, has a condition among pristine, mint and near mint,
\* whatever condition argument the call was given
C18_PackCardsAreNearMintOrBetter ==
    \A t \in Tasks : \A c \in PackCards(t) :
        c.condition \in {"pristine", "mint", "near_mint"}

\* C18 witness: a pack-mode call that was asked for a damaged card returned one
C18_AskedForDamagedInPackMode ==
    \E t \in Tasks :
        /\ tasks[t].pc = "generated"
        /\ tasks[t].p.pack
        /\ tasks[t].p.condition = "damaged"
        /\ Len(tasks[t].p.cards) > 0

\* the number of cards of rarity r among the contents of task t's pack
CountOf(t, r) ==
    Cardinality({i \in 1..Len(tasks[t].p.cards) : tasks[t].p.cards[i].rarity = r})

\* the cards of task t's pack above the pack's own tier
Leaked(t) ==
    {i \in 1..Len(tasks[t].p.cards) :
        rarity_level(tasks[t].p.cards[i].rarity)
            > rarity_level(tasks[t].p.rarities_and_amounts[1][1])}

\* C19: an opened rare or epic pack holds exactly 7 cards and an opened mythic,
\* legendary or exotic pack exactly 5, every band count is at least zero and
\* is the number of cards of that rarity generated for the band
C19_PackSize ==
    \A t \in Tasks : tasks[t].pc = "pack" =>
        /\ Len(tasks[t].p.cards)
             = (IF tasks[t].kind \in {"rare_card_pack", "epic_card_pack"} THEN 7 ELSE 5)
        /\ \A i \in 1..Len(tasks[t].p.rarities_and_amounts) :
              /\ tasks[t].p.rarities_and_amounts[i][2] >= 0
              /\ CountOf(t, tasks[t].p.rarities_and_amounts[i][1])
                   = tasks[t].p.rarities_and_amounts[i][2]

\* C19 witness: a legendary pack was opened with an exotic card in it, so its
\* top band went from one card to none
C19_LegendaryPackWithALeak ==
    \E t \in Tasks :
        /\ tasks[t].pc = "pack"
        /\ tasks[t].kind = "legendary_card_pack"
        /\ CountOf(t, "exotic") = 1
        /\ CountOf(t, "legendary") = 0

\* the top band counts a pack rolls before any leak
TopBandRolls(item) ==
    CASE item = "rare_card_pack" -> 2..4
      [] item = "epic_card_pack" -> 1..2
      [] item = "mythic_card_pack" -> {1}
      [] item = "legendary_card_pack" -> {1}
      [] item = "exotic_card_pack" -> 0..1

\* C20: an opened pack holds at most one card above its own tier; that card is
\* exactly one tier above and takes the place of one card of the top band; an
\* exotic pack holds nothing above exotic
C20_AtMostOneLeakOneTierUp ==
    \A t \in Tasks : tasks[t].pc = "pack" =>
        LET top == tasks[t].p.rarities_and_amounts[1] IN
        /\ Cardinality(Leaked(t)) <= 1
        /\ \A i \in Leaked(t) :
              rarity_level(tasks[t].p.cards[i].rarity) = rarity_level(top[1]) + 1
        /\ top[2] + Cardinality(Leaked(t)) \in TopBandRolls(tasks[t].kind)
        /\ tasks[t].kind = "exotic_card_pack" => Leaked(t) = {}

\* C20 witness: a rare pack was opened with one epic card and one rare card
C20_RarePackWithAnEpic ==
    \E t \in Tasks :
        /\ tasks[t].pc = "pack"
        /\ tasks[t].kind = "rare_card_pack"
        /\ CountOf(t, "epic") = 1
        /\ CountOf(t, "rare") = 1


\* C21: on every condition but damaged an upgrade undoes a downgrade, on every
\* condition but pristine a downgrade undoes an upgrade, damaged downgrades to
\* damaged and pristine upgrades to pristine, and every other step that was
\* taken moved the card's level by exactly one
C21_ConditionLadder ==
    /\ \A id \in DOMAIN cards :
         LET c == cards[id].condition IN
         /\ c # "damaged" => upgrade(downgrade(c)) = c
         /\ c # "pristine" => downgrade(upgrade(c)) = c
    /\ downgrade("damaged") = "damaged"
    /\ upgrade("pristine") = "pristine"
    /\ \A t \in Tasks : tasks[t].pc = "ladder" =>
         /\ cards[tasks[t].card_id].condition = tasks[t].to
         /\ level(tasks[t].to) - level(tasks[t].from)
              = (CASE tasks[t].cmd = "upgrade" /\ tasks[t].from # "pristine" -> 1
                   [] tasks[t].cmd = "downgrade" /\ tasks[t].from # "damaged" -> 0 - 1
                   [] OTHER -> 0)

\* C21 witness: a damaged card was downgraded while a pristine card exists
C21_DowngradedAtTheBottom ==
    \E t \in Tasks :
        /\ tasks[t].pc = "ladder"
        /\ tasks[t].cmd = "downgrade"
        /\ tasks[t].from = "damaged"
        /\ \E id \in DOMAIN cards : cards[id].condition = "pristine"


\* C22: no user's backpack level ever leaves 1..5, whatever purchases of the
\* backpack upgrade are proposed and confirmed and in whatever order
C22_BackpackLevelStaysWithinFive ==
    \A u \in Users : users[u].backpack_level \in 1..5


\* what a confirmed purchase took from the buyer's balance in this step
Charged(t) ==
    users[tasks[t].actor][tasks[t].p.currency]
        - users'[tasks[t].actor][tasks[t].p.currency]

\* _confirm_item_buy went through for task t in this step
Bought(t) ==
    /\ _confirm_item_buy(t)
    /\ tasks'[t].result = "success"

\* C25: a confirmed purchase of n units of an item of base price p takes
\* n * round(p - 0.2 * p) from a patreon member and n * p from anyone else
C25_PatreonDiscountIsCharged ==
    [][\A t \in Tasks :
         (Bought(t) /\ tasks[t].p.item # "backpack_upgrade") =>
            Charged(t) = tasks[t].p.amount_to_buy
                           * (IF is_patreon(tasks[t].actor)
                              THEN PatreonPrice(ItemPrice(tasks[t].p.item))
                              ELSE ItemPrice(tasks[t].p.item))]_vars


\* the price of the upgrade from level L to L + 1
UpgradePrice(L) ==
    CASE L = 1 -> 75
      [] L = 2 -> 250
      [] L = 3 -> 475
      [] L = 4 -> 750

C23_BackpackCapsTheCards ==
    \A u \in Users :
        users[u].backpack_level < 5 =>
            Cardinality(get_cards(u)) <= 500 * users[u].backpack_level

\* C24: a grab or a pack opening of a user at backpack level 5 never ends with
\* the backpack reported full
C24_LevelFiveIsNeverFull ==
    \A t \in DOMAIN tasks :
        (tasks[t].pc = "done" /\ tasks[t].cmd \in {"grab", "use"}
            /\ users[tasks[t].actor].backpack_level = 5)
        => tasks[t].result # "backpack_full"


\* C27: in the step that carries out a trade no card that has a sleeve changes
\* its condition, and no card goes from having no sleeve to having one
C27_SleeveProtectsDuringTrade ==
    [][\A t \in Tasks : trade_card_writes(t) =>
         \A c \in DOMAIN cards :
            /\ cards[c].has_sleeve => cards'[c].condition = cards[c].condition
            /\ ~cards[c].has_sleeve => ~cards'[c].has_sleeve]_vars

\* the sleeve items the users hold and the sleeves that are on cards
SleevesOf(inventory, table) ==
    inventory["u1"]["card_sleeve"] + inventory["u2"]["card_sleeve"]
        + Cardinality({c \in DOMAIN table : table[c].has_sleeve})

\* C28: a confirmed sleeve add takes one sleeve item and puts a sleeve on a card
\* that had none, a confirmed sleeve remove gives one sleeve item back and takes
\* the sleeve off a card that had one, so the sleeves in the inventories and on
\* the cards stay as many as they were
C28_SleevesAreOneForOne ==
    [][\A t \in Tasks :
         (_confirm_card_sleeve(t) /\ tasks'[t].result = "success") =>
            LET u == tasks[t].actor
                c == tasks[t].p.card_id
            IN  /\ c \in DOMAIN cards
                /\ IF tasks[t].p.is_option_add
                   THEN /\ inv'[u]["card_sleeve"] = inv[u]["card_sleeve"] - 1
                        /\ ~cards[c].has_sleeve /\ cards'[c].has_sleeve
                   ELSE /\ inv'[u]["card_sleeve"] = inv[u]["card_sleeve"] + 1
                        /\ cards[c].has_sleeve /\ ~cards'[c].has_sleeve
                /\ SleevesOf(inv', cards') = SleevesOf(inv, cards)]_vars


\* C29: whatever register calls are made and however they interleave, a user
\* that has a users record has its levels, daily and vote records too, and
\* every call that has ended returned the id of that one users record
C29_RegistrationIsIdempotentAndAtomic ==
    /\ \A u \in DOMAIN users :
          u \in DOMAIN levels /\ u \in daily /\ u \in vote
    /\ \A t \in Tasks :
          (tasks[t].pc = "done" /\ tasks[t].cmd = "register") =>
             /\ tasks[t].result = "returned"
             /\ tasks[t].actor \in DOMAIN users
             /\ tasks[t].user_id = users[tasks[t].actor].id


\* C30: whenever a burn ends because the actor owns no cards, the card id is not
\* found or the cards are gone at the commit, on the single-card, the
\* multi-card and the burn-all path, the actor's burn cooldown is reset
C30_BurnRejectionsResetTheCooldown ==
    [][\A t \in Tasks :
         (/\ tasks[t].pc # "done"
          /\ tasks'[t].pc = "done"
          /\ tasks'[t].cmd = "burn"
          /\ tasks'[t].result \in {"no_cards", "not_found", "vanished"})
         => ~cooldown'["burn"][tasks'[t].actor]]_vars


\* an invocation of cmd by u that passed the cooldown check less than the
\* command's window ago, with no reset of that bucket since
HeldBy(o, cmd, u) ==
    /\ tasks[o].pc # "idle"
    /\ tasks[o].cmd = cmd /\ tasks[o].actor = u
    /\ tasks[o].result = "passed"
    /\ now - tasks[o].at < per[cmd]
    /\ \A q \in Tasks :
          (tasks[q].pc # "idle" /\ tasks[q].cmd = cmd /\ tasks[q].actor = u)
             => tasks[q].reset_at < tasks[o].at

\* C31: an invocation of a gated command by an actor is rejected as on cooldown
\* whenever an earlier invocation of that command by that actor passed the check
\* less than the window ago and the bucket was not reset since, and it is
\* rejected only if that actor passed the check of that command within the window
C31_CooldownGatesTheWindow ==
    [][\A t \in Tasks :
         (tasks[t].pc = "idle" /\ tasks'[t].pc # "idle") =>
            LET cmd == tasks'[t].cmd
                u == tasks'[t].actor
            IN /\ (\E o \in Tasks : HeldBy(o, cmd, u))
                     => tasks'[t].result = "on_cooldown"
               /\ tasks'[t].result = "on_cooldown"
                     => \E o \in Tasks :
                           /\ tasks[o].pc # "idle"
                           /\ tasks[o].cmd = cmd /\ tasks[o].actor = u
                           /\ tasks[o].result = "passed"
                           /\ now - tasks[o].at < per[cmd]]_vars


\* C32: the weights CardFactory.generate_special_rarity samples from are, for a
\* member with a patreon role and a table with a shiny weight, twice the
\* table's shiny weight for shiny and the table's unknown weight less the amount
\* added to shiny for unknown, so that the total is the table's total; for any
\* other member, and without a member, they are the table's weights
C32_PatreonDoublesShiny ==
    \A t \in Tasks : tasks[t].pc = "special" =>
        LET table == SpecialWeights[tasks[t].weight]
            used == tasks[t].special_rarity
        IN  IF tasks[t].member # "None" /\ is_patreon(tasks[t].member)
            THEN "shiny" \in DOMAIN table =>
                   /\ used["shiny"] = 2 * table["shiny"]
                   /\ used["unknown"] = table["unknown"] - table["shiny"]
                   /\ used["shiny"] + used["unknown"] = table["shiny"] + table["unknown"]
            ELSE used = table

\* C33: no card whose character is Troll is ever in the cards table, and every
\* card that a command proposes to store with the character Troll carries the
\* identifier 7R0115
C33_TrollIsNeverStored ==
    /\ \A c \in DOMAIN cards : cards[c].character_name # "Troll"
    /\ \A t \in Tasks :
          (tasks[t].pc \in {"wait", "apply"} /\ tasks[t].cmd = "fusion"
             /\ tasks[t].p.row.character_name = "Troll")
          => tasks[t].p.card_id = "7R0115"

\* a grab task that was let past the already-grabbed check of its button
LetIn(t) ==
    /\ tasks[t].pc # "idle"
    /\ tasks[t].cmd = "grab"
    /\ \/ tasks[t].pc = "apply"
       \/ tasks[t].result \in {"success", "troll", "insert_failed"}

C35_BurnRewardIsCreditedOnce ==
    [][\A t \in Tasks :
         (/\ IsApplying(t, "burn", "one")
          /\ tasks'[t].pc = "done"
          /\ (users' # users \/ inv' # inv))
         => ~\E o \in Tasks \ {t} :
               /\ tasks[o].pc = "done"
               /\ tasks[o].cmd = "burn" /\ tasks[o].kind = "one"
               /\ tasks[o].result = "success"
               /\ tasks[t].p.card_id \in tasks[o].burnt]_vars

\* C36: an accepted trade that was carried out moved both cards to their new
\* owners or neither, never exactly one of them, and its steps leave the number
\* of cards as it was
C36_TradeIsAnAtomicSwap ==
    [][\A t \in Tasks :
         /\ trade_card_swap(t) => tasks'[t].transferred # 1
         /\ (trade_card_writes(t) \/ trade_card_swap(t))
               => Cardinality(DOMAIN cards') = Cardinality(DOMAIN cards)]_vars

\* C37: every confirmed upgrade that takes glistening gems is made on a card
\* that exists and is owned by the actor, and leaves the stored condition of
\* that card exactly one level above what it was before the commit
C37_UpgradeChargesForWhatItDoes ==
    [][\A t \in Tasks :
         (/\ IsApplying(t, "forge_upgrade", "upgrade")
          /\ tasks'[t].pc = "done"
          /\ inv'[tasks[t].actor]["glistening_gem"] < inv[tasks[t].actor]["glistening_gem"])
         => LET c == tasks[t].p.card_id IN
            /\ c \in DOMAIN cards
            /\ cards[c].owner = tasks[t].actor
            /\ c \in DOMAIN cards'
            /\ level(cards'[c].condition) = level(cards[c].condition) + 1]_vars

\* C38: when a lock command on a card of the actor reports success the card is
\* locked, and when an unlock command reports success the card is unlocked
C38_LockReachesItsTarget ==
    [][\A t \in Tasks :
         (card_lock_writes(t) /\ tasks'[t].result = "success") =>
            LET c == tasks[t].p.card_id IN
            (c \in DOMAIN cards' /\ cards'[c].owner = tasks[t].actor)
               => cards'[c].locked = (tasks[t].kind = "lock")]_vars


\* C39: a trade offer is on display only if the initiator and the target user
\* are both at least level 5
C39_TradeNeedsBothAtLevel ==
    \A t \in Tasks :
        (tasks[t].pc = "wait" /\ tasks[t].cmd = "trade") =>
            /\ levels[tasks[t].actor] >= required_level
            /\ levels[tasks[t].p.user] >= required_level


\* C40: a confirmed use of a card pack by a user who holds the pack and whose
\* backpack is not full removes the pack item and opens the pack, whatever
\* number of cards the user owns
C40_ConfirmedPackUseOpensThePack ==
    [][\A t \in BackpackTasks :
         (/\ _confirm_item_use(t)
          /\ tasks[t].view.value = "True"
          /\ tasks[t].p.item \in CardPacks
          /\ inv[tasks[t].actor][tasks[t].p.item] >= tasks[t].p.amount_to_use
          /\ ~(/\ users[tasks[t].actor].backpack_level < max_backpack_level
               /\ Cardinality(get_cards(tasks[t].actor))
                     > users[tasks[t].actor].backpack_level * backpack_slots))
         => /\ tasks'[t].pc = "pack"
            /\ inv'[tasks[t].actor][tasks[t].p.item]
                  = inv[tasks[t].actor][tasks[t].p.item] - tasks[t].p.amount_to_use]_vars

=============================================================================
